---- MODULE Spec2Model ----
(***************************************************************************)
(* FLUX codec: the encoder (src/flux-encoder.ts) and the decoder           *)
(* ("FLUX Decoder", second half of src/flux-examples.ts).                  *)
(*                                                                         *)
(* Text is a sequence of one-character strings.  A JavaScript value is a   *)
(* record [kind, v]: kind is "null", "undefined", "bool", "num", "str",    *)
(* "arr", "obj", "function" or "symbol"; an Object's v is the sequence of  *)
(* its <<key, value>> pairs in property order, an Array's v the sequence   *)
(* of its elements, a function's v its source text and a symbol's v its    *)
(* description.                                                            *)
(* A number is an integer (kind "num") or, where the decoder parses a       *)
(* decimal fraction, a kind "float" holding its canonical decimal text.    *)
(***************************************************************************)
EXTENDS Integers, Sequences, FiniteSets, TLC

(***************************************************************************)
(* Characters and character classes of the regular expressions             *)
(***************************************************************************)
NL == "\n"
CR == "\r"
TAB == "\t"
SP == " "
BSL == "\\"
DQ == "\""

Digit == {"0", "1", "2", "3", "4", "5", "6", "7", "8", "9"}
Lower == {"a", "b", "c", "d", "e", "f", "g", "h", "i", "j", "k", "l", "m",
          "n", "o", "p", "q", "r", "s", "t", "u", "v", "w", "x", "y", "z"}
Upper == {"A", "B", "C", "D", "E", "F", "G", "H", "I", "J", "K", "L", "M",
          "N", "O", "P", "Q", "R", "S", "T", "U", "V", "W", "X", "Y", "Z"}
Letter == Lower \cup Upper
Word == Letter \cup Digit \cup {"_"}
Hex == Digit \cup {"a", "b", "c", "d", "e", "f", "A", "B", "C", "D", "E", "F"}
WS == {SP, TAB, NL, CR}
LineTerm == {NL, CR}

(***************************************************************************)
(* String primitives of the JavaScript runtime                             *)
(***************************************************************************)
\* number of consecutive characters of class C in s from position from
RunFrom(s, from, C) ==
  IF from > Len(s) THEN 0
  ELSE IF \A i \in from..Len(s) : s[i] \in C
  THEN Len(s) - from + 1
  ELSE (CHOOSE i \in from..Len(s) :
          s[i] \notin C /\ \A j \in from..(i - 1) : s[j] \in C) - from

DropFrom(s, from) == SubSeq(s, from, Len(s))

trimStart(s) == DropFrom(s, RunFrom(s, 1, WS) + 1)

trimEnd(s) ==
  IF \A i \in 1..Len(s) : s[i] \in WS
  THEN <<>>
  ELSE SubSeq(s, 1, CHOOSE i \in 1..Len(s) :
                      s[i] \notin WS /\ \A j \in (i + 1)..Len(s) : s[j] \in WS)

trim(s) == trimEnd(trimStart(s))

startsWith(s, p) == Len(s) >= Len(p) /\ SubSeq(s, 1, Len(p)) = p

endsWith(s, p) == Len(s) >= Len(p) /\ SubSeq(s, Len(s) - Len(p) + 1, Len(s)) = p

\* String.prototype.indexOf, 1-based; 0 when p does not occur
indexOf(s, p) ==
  IF \E i \in 1..(Len(s) - Len(p) + 1) : SubSeq(s, i, i + Len(p) - 1) = p
  THEN CHOOSE i \in 1..(Len(s) - Len(p) + 1) :
         /\ SubSeq(s, i, i + Len(p) - 1) = p
         /\ \A j \in 1..(i - 1) : SubSeq(s, j, j + Len(p) - 1) # p
  ELSE 0

\* String.prototype.replace with a global pattern matching the literal pat
RECURSIVE replaceAll(_, _, _)
replaceAll(s, pat, rep) ==
  IF Len(s) < Len(pat) THEN s
  ELSE IF SubSeq(s, 1, Len(pat)) = pat
       THEN rep \o replaceAll(DropFrom(s, Len(pat) + 1), pat, rep)
       ELSE <<Head(s)>> \o replaceAll(Tail(s), pat, rep)

\* Array.prototype.join
RECURSIVE join(_, _)
join(parts, sep) ==
  IF parts = <<>> THEN <<>>
  ELSE IF Len(parts) = 1 THEN parts[1]
  ELSE parts[1] \o sep \o join(Tail(parts), sep)

\* String.prototype.split on the one-character separator c
RECURSIVE split(_, _)
split(s, c) ==
  IF \A i \in 1..Len(s) : s[i] # c THEN <<s>>
  ELSE LET k == RunFrom(s, 1, {ch \in {s[i] : i \in 1..Len(s)} : ch # c})
       IN <<SubSeq(s, 1, k)>> \o split(DropFrom(s, k + 2), c)

\* String.prototype.split(/\s+/) applied to a trimmed string
RECURSIVE splitWs(_)
splitWs(s) ==
  IF \A i \in 1..Len(s) : s[i] \notin WS THEN <<s>>
  ELSE LET k == RunFrom(s, 1, {ch \in {s[i] : i \in 1..Len(s)} : ch \notin WS})
           w == RunFrom(s, k + 1, WS)
       IN <<SubSeq(s, 1, k)>> \o splitWs(DropFrom(s, k + w + 1))

\* ' '.repeat(n)
repeat(c, n) == [i \in 1..n |-> c]

AllIn(s, C) == \A i \in 1..Len(s) : s[i] \in C

\* String(n) of an integer
RECURSIVE NatToString(_)
NatToString(n) ==
  LET d == <<"0", "1", "2", "3", "4", "5", "6", "7", "8", "9">>[(n % 10) + 1]
  IN IF n < 10 THEN <<d>> ELSE NatToString(n \div 10) \o <<d>>

NumberToString(n) == IF n < 0 THEN <<"-">> \o NatToString(-n) ELSE NatToString(n)

DigitValue(c) == CHOOSE d \in 0..9 : NatToString(d) = <<c>>

RECURSIVE DigitsToNat(_)
DigitsToNat(s) ==
  IF s = <<>> THEN 0
  ELSE 10 * DigitsToNat(SubSeq(s, 1, Len(s) - 1)) + DigitValue(s[Len(s)])

(***************************************************************************)
(* Values                                                                  *)
(***************************************************************************)
Null == [kind |-> "null", v |-> 0]
Undefined == [kind |-> "undefined", v |-> 0]
Bool(b) == [kind |-> "bool", v |-> b]
Num(n) == [kind |-> "num", v |-> n]
\* a number that is not an integer, by its canonical decimal text
Float(text) == [kind |-> "float", v |-> text]
Str(s) == [kind |-> "str", v |-> s]
Arr(items) == [kind |-> "arr", v |-> items]
\* a Date object, by the text toISOString() returns for it
Date(iso) == [kind |-> "date", v |-> iso]
\* a function, by its source text
Fn(source) == [kind |-> "function", v |-> source]
\* Symbol(description)
Sym(description) == [kind |-> "symbol", v |-> description]
Obj(pairs) == [kind |-> "obj", v |-> pairs]

IsNullish(value) == value.kind \in {"null", "undefined"}

\* typeof value === 'object' (null, Arrays, Dates and Objects)
IsObjectType(value) == value.kind \in {"null", "arr", "date", "obj"}

\* an own property key that is a canonical array index ("0", "7", "12")
IsArrayIndex(key) ==
  /\ key # <<>>
  /\ AllIn(key, Digit)
  /\ (Len(key) = 1 \/ key[1] # "0")

\* own enumerable string keys with their values, in property order
Entries(value) ==
  IF value.kind = "obj" THEN value.v
  ELSE IF value.kind = "arr"
       THEN [i \in 1..Len(value.v) |-> <<NumberToString(i - 1), value.v[i]>>]
       ELSE <<>>

ObjectKeys(value) == [i \in 1..Len(Entries(value)) |-> Entries(value)[i][1]]

HasKey(pairs, key) == \E i \in 1..Len(pairs) : pairs[i][1] = key

\* value[key]; undefined when there is no such property
Get(value, key) ==
  LET e == Entries(value)
  IN IF HasKey(e, key)
     THEN e[CHOOSE i \in 1..Len(e) : e[i][1] = key][2]
     ELSE Undefined

\* pairs after obj[key] = val: an existing key keeps its place, a new array
\* index goes among the indices in ascending order, any other new key last
SetProp(pairs, key, val) ==
  IF HasKey(pairs, key)
  THEN [i \in 1..Len(pairs) |-> IF pairs[i][1] = key THEN <<key, val>> ELSE pairs[i]]
  ELSE IF IsArrayIndex(key)
       THEN LET before == {i \in 1..Len(pairs) :
                             /\ IsArrayIndex(pairs[i][1])
                             /\ DigitsToNat(pairs[i][1]) < DigitsToNat(key)}
                n == Cardinality(before)
            IN SubSeq(pairs, 1, n) \o <<<<key, val>>>> \o DropFrom(pairs, n + 1)
       ELSE Append(pairs, <<key, val>>)

\* Object.assign(target, source) on the pairs of target
RECURSIVE AssignPairs(_, _)
AssignPairs(pairs, src) ==
  IF src = <<>> THEN pairs
  ELSE AssignPairs(SetProp(pairs, src[1][1], src[1][2]), Tail(src))

ObjectAssign(target, source) == Obj(AssignPairs(target.v, Entries(source)))

(***************************************************************************)
(* Type system (flux-encoder.ts)                                           *)
(***************************************************************************)
TypeMarkers ==
  [INTEGER |-> <<"@", "i">>, FLOAT |-> <<"@", "f">>, STRING |-> <<"@", "s">>,
   BOOLEAN |-> <<"@", "b">>, TIMESTAMP |-> <<"@", "t">>, EMAIL |-> <<"@", "e">>,
   URL |-> <<"@", "u">>, UUID |-> <<"@", "$">>, HASH |-> <<"@", "h">>,
   JSON |-> <<"@", "j">>, NULL |-> <<"@", "n">>]

StringFamily ==
  {TypeMarkers.STRING, TypeMarkers.EMAIL, TypeMarkers.URL, TypeMarkers.UUID,
   TypeMarkers.HASH}

\* /^[a-zA-Z0-9._%+-]+@[a-zA-Z0-9.-]+\.[a-zA-Z]{2,}$/
IsEmail(s) ==
  \E a \in 2..Len(s) : \E d \in (a + 2)..(Len(s) - 2) :
    /\ s[a] = "@"
    /\ AllIn(SubSeq(s, 1, a - 1), Letter \cup Digit \cup {".", "_", "%", "+", "-"})
    /\ AllIn(SubSeq(s, a + 1, d - 1), Letter \cup Digit \cup {".", "-"})
    /\ s[d] = "."
    /\ AllIn(DropFrom(s, d + 1), Letter)

\* /^https?:\/\/.+/
IsUrl(s) ==
  \E p \in {<<"h", "t", "t", "p", ":", "/", "/">>,
            <<"h", "t", "t", "p", "s", ":", "/", "/">>} :
    /\ startsWith(s, p)
    /\ Len(s) > Len(p)
    /\ s[Len(p) + 1] \notin LineTerm

\* /^[0-9a-f]{8}-[0-9a-f]{4}-[0-9a-f]{4}-[0-9a-f]{4}-[0-9a-f]{12}$/i
IsUuid(s) ==
  /\ Len(s) = 36
  /\ \A i \in 1..36 : IF i \in {9, 14, 19, 24} THEN s[i] = "-" ELSE s[i] \in Hex

\* /^[0-9a-f]{32,}$/i
IsHash(s) == Len(s) >= 32 /\ AllIn(s, Hex)

\* /^\d{4}-\d{2}-\d{2}T\d{2}:\d{2}/
IsTimestamp(s) ==
  /\ Len(s) >= 16
  /\ \A i \in 1..16 :
       IF i \in {5, 8} THEN s[i] = "-"
       ELSE IF i = 11 THEN s[i] = "T"
       ELSE IF i = 14 THEN s[i] = ":"
       ELSE s[i] \in Digit

\* inferType without the rule for e-mail addresses
inferTypeNoEmail(value) ==
  IF IsNullish(value) THEN TypeMarkers.NULL
  ELSE IF value.kind = "bool" THEN TypeMarkers.BOOLEAN
  ELSE IF value.kind = "num" THEN TypeMarkers.INTEGER
  ELSE IF value.kind = "float" THEN TypeMarkers.FLOAT
  ELSE IF value.kind = "date" THEN TypeMarkers.TIMESTAMP
  ELSE IF value.kind = "str"
       THEN IF IsUrl(value.v) THEN TypeMarkers.URL
            ELSE IF IsUuid(value.v) THEN TypeMarkers.UUID
            ELSE IF IsHash(value.v) THEN TypeMarkers.HASH
            ELSE IF IsTimestamp(value.v) THEN TypeMarkers.TIMESTAMP
            ELSE TypeMarkers.STRING
  ELSE IF value.kind \in {"arr", "obj"} THEN TypeMarkers.JSON
  ELSE TypeMarkers.STRING

inferType(value) ==
  IF IsNullish(value) THEN TypeMarkers.NULL
  ELSE IF value.kind = "bool" THEN TypeMarkers.BOOLEAN
  ELSE IF value.kind = "num" THEN TypeMarkers.INTEGER
  ELSE IF value.kind = "float" THEN TypeMarkers.FLOAT
  ELSE IF value.kind = "date" THEN TypeMarkers.TIMESTAMP
  ELSE IF value.kind = "str"
       THEN IF IsEmail(value.v) THEN TypeMarkers.EMAIL
            ELSE IF IsUrl(value.v) THEN TypeMarkers.URL
            ELSE IF IsUuid(value.v) THEN TypeMarkers.UUID
            ELSE IF IsHash(value.v) THEN TypeMarkers.HASH
            ELSE IF IsTimestamp(value.v) THEN TypeMarkers.TIMESTAMP
            ELSE TypeMarkers.STRING
  ELSE IF value.kind \in {"arr", "obj"} THEN TypeMarkers.JSON
  ELSE TypeMarkers.STRING

\* /^\d+$/
IsDigits(s) == s # <<>> /\ AllIn(s, Digit)

\* /^-?\d*\.?\d+$/
IsDecimal(s) ==
  LET u == IF s # <<>> /\ s[1] = "-" THEN Tail(s) ELSE s
      k == RunFrom(u, 1, Digit)
  IN \/ IsDigits(u)
     \/ k < Len(u) /\ u[k + 1] = "." /\ IsDigits(DropFrom(u, k + 2))

\* needsQuoting without the test for the words null, true and false
needsQuotingNoWords(str) ==
  \/ Len(str) = 0
  \/ str # trim(str)
  \/ \E i \in 1..Len(str) : str[i] \in {",", TAB, "|", ":", DQ, BSL}
  \/ str \in {<<"-">>, <<"T">>, <<"F">>}
  \/ IsDigits(str)
  \/ IsDecimal(str)
  \/ startsWith(str, <<"-", SP>>)

needsQuoting(str) ==
  \/ Len(str) = 0
  \/ str # trim(str)
  \/ \E i \in 1..Len(str) : str[i] \in {",", TAB, "|", ":", DQ, BSL}
  \/ str \in {<<"-">>, <<"T">>, <<"F">>}
  \/ IsDigits(str)
  \/ IsDecimal(str)
  \/ str \in {<<"n", "u", "l", "l">>, <<"t", "r", "u", "e">>,
              <<"f", "a", "l", "s", "e">>}
  \/ startsWith(str, <<"-", SP>>)

escapeString(str) ==
  replaceAll(
    replaceAll(
      replaceAll(
        replaceAll(
          replaceAll(str, <<BSL>>, <<BSL, BSL>>),
          <<DQ>>, <<BSL, DQ>>),
        <<NL>>, <<BSL, "n">>),
      <<CR>>, <<BSL, "r">>),
    <<TAB>>, <<BSL, "t">>)

\* JSON.stringify of a string
QuoteJson(s) == <<DQ>> \o escapeString(s) \o <<DQ>>

\* String(value) and template interpolation; String(date) depends on the time
\* zone of the runtime and has no case here
RECURSIVE JSString(_)
JSString(value) ==
  CASE value.kind = "null" -> <<"n", "u", "l", "l">>
    [] value.kind = "undefined" -> <<"u", "n", "d", "e", "f", "i", "n", "e", "d">>
    [] value.kind = "bool" ->
         IF value.v THEN <<"t", "r", "u", "e">> ELSE <<"f", "a", "l", "s", "e">>
    [] value.kind = "num" -> NumberToString(value.v)
    [] value.kind \in {"str", "float", "function"} -> value.v
    [] value.kind = "symbol" ->
         <<"S", "y", "m", "b", "o", "l", "(">> \o value.v \o <<")">>
    [] value.kind = "arr" ->
         join([i \in 1..Len(value.v) |->
                 IF IsNullish(value.v[i]) THEN <<>> ELSE JSString(value.v[i])],
              <<",">>)
    [] value.kind = "obj" ->
         <<"[", "o", "b", "j", "e", "c", "t", " ", "O", "b", "j", "e", "c", "t", "]">>

\* the pairs whose value is not undefined, a function or a symbol
RECURSIVE Defined(_)
Defined(pairs) ==
  IF pairs = <<>> THEN <<>>
  ELSE IF pairs[1][2].kind \in {"undefined", "function", "symbol"}
       THEN Defined(Tail(pairs))
  ELSE <<pairs[1]>> \o Defined(Tail(pairs))

\* an undefined, a function or a symbol is null as an element of an Array;
\* JSON.stringify of a function or a symbol itself is undefined, which
\* Array.prototype.join renders as the empty string
RECURSIVE JSONstringify(_)
JSONstringify(value) ==
  CASE value.kind \in {"null", "undefined"} -> <<"n", "u", "l", "l">>
    [] value.kind \in {"function", "symbol"} -> <<>>
    [] value.kind \in {"bool", "num", "float"} -> JSString(value)
    [] value.kind \in {"str", "date"} -> QuoteJson(value.v)
    [] value.kind = "arr" ->
         <<"[">> \o join([i \in 1..Len(value.v) |->
                                 IF value.v[i].kind \in {"function", "symbol"}
                                 THEN <<"n", "u", "l", "l">>
                                 ELSE JSONstringify(value.v[i])],
                         <<",">>) \o <<"]">>
    [] value.kind = "obj" ->
         LET d == Defined(value.v)
         IN <<"{">> \o join([i \in 1..Len(d) |->
                               QuoteJson(d[i][1]) \o <<":">> \o JSONstringify(d[i][2])],
                            <<",">>) \o <<"}">>

\* the truthiness that `value ? a : b` tests
Truthy(value) ==
  CASE value.kind \in {"null", "undefined"} -> FALSE
    [] value.kind = "bool" -> value.v
    [] value.kind = "num" -> value.v # 0
    [] value.kind = "str" -> value.v # <<>>
    [] OTHER -> TRUE

\* formatValue without its Boolean case: a boolean is rendered by String()
formatValueNoBoolean(value, type) ==
  IF IsNullish(value) THEN <<"-">>
  ELSE IF type = TypeMarkers.TIMESTAMP
       THEN (IF value.kind = "date" THEN value.v ELSE JSString(value))
  ELSE IF type \in StringFamily
       THEN IF needsQuoting(JSString(value))
            THEN <<DQ>> \o escapeString(JSString(value)) \o <<DQ>>
            ELSE JSString(value)
  ELSE IF type = TypeMarkers.JSON THEN JSONstringify(value)
  ELSE JSString(value)

formatValue(value, type) ==
  IF IsNullish(value) THEN <<"-">>
  ELSE IF type = TypeMarkers.BOOLEAN
       THEN (IF Truthy(value) THEN <<"T">> ELSE <<"F">>)
  ELSE IF type = TypeMarkers.TIMESTAMP
       THEN (IF value.kind = "date" THEN value.v ELSE JSString(value))
  ELSE IF type \in StringFamily
       THEN IF needsQuoting(JSString(value))
            THEN <<DQ>> \o escapeString(JSString(value)) \o <<DQ>>
            ELSE JSString(value)
  ELSE IF type = TypeMarkers.JSON THEN JSONstringify(value)
  ELSE JSString(value)

(***************************************************************************)
(* Shape analyzer (flux-encoder.ts, analyzeArray)                          *)
(***************************************************************************)
\* the characters of the model in UTF-16 code unit order
CodeOrder ==
  <<TAB, NL, CR, SP, "!", DQ, "#", "$", "%", "&", "'", "(", ")", "*", "+", ",",
    "-", ".", "/", "0", "1", "2", "3", "4", "5", "6", "7", "8", "9", ":", ";",
    "<", "=", ">", "?", "@", "A", "B", "C", "D", "E", "F", "G", "H", "I", "J",
    "K", "L", "M", "N", "O", "P", "Q", "R", "S", "T", "U", "V", "W", "X", "Y",
    "Z", "[", BSL, "]", "^", "_", "a", "b", "c", "d", "e", "f", "g", "h",
    "i", "j", "k", "l", "m", "n", "o", "p", "q", "r", "s", "t", "u", "v", "w",
    "x", "y", "z", "{", "|", "}", "~">>

CharCode(c) == CHOOSE i \in 1..Len(CodeOrder) : CodeOrder[i] = c

\* a < b in the order Array.prototype.sort uses by default
RECURSIVE StringLess(_, _)
StringLess(a, b) ==
  IF b = <<>> THEN FALSE
  ELSE IF a = <<>> THEN TRUE
  ELSE IF a[1] = b[1] THEN StringLess(Tail(a), Tail(b))
  ELSE CharCode(a[1]) < CharCode(b[1])

\* keys.sort() on distinct strings
sort(keys) ==
  [i \in 1..Len(keys) |->
     keys[CHOOSE j \in 1..Len(keys) :
            Cardinality({k \in 1..Len(keys) : StringLess(keys[k], keys[j])}) = i - 1]]

\* arr.every(item => the sorted keys of item are fields)
allSameStructure(arr, fields) ==
  \A i \in 1..Len(arr) :
    /\ arr[i].kind \in {"arr", "date", "obj"}
    /\ sort(ObjectKeys(arr[i])) = fields

nullCount(arr, field) ==
  Cardinality({i \in 1..Len(arr) : IsNullish(Get(arr[i], field))})

\* size of the Map of the non-null values of a field: primitives are keyed
\* by value, every Object, Array, Date, function or symbol by its own identity
uniqueValues(arr, field) ==
  Cardinality({Get(arr[i], field) : i \in {j \in 1..Len(arr) :
                 Get(arr[j], field).kind \in {"bool", "num", "float", "str"}}})
  + Cardinality({i \in 1..Len(arr) :
                   Get(arr[i], field).kind
                     \in {"arr", "date", "obj", "function", "symbol"}})

\* isSparseField with >= in place of >
isSparseFieldInclusive(arr, field) == nullCount(arr, field) * 100 >= 30 * Len(arr)

\* (nullCount / arr.length) * 100 > 30
isSparseField(arr, field) == nullCount(arr, field) * 100 > 30 * Len(arr)

\* uniqueValues > 0 && uniqueValues < totalValues * 0.3 && uniqueValues < 50
isDictionaryCandidate(arr, field) ==
  LET u == uniqueValues(arr, field)
      totalValues == Len(arr) - nullCount(arr, field)
  IN u > 0 /\ 10 * u < 3 * totalValues /\ u < 50

\* the result for an Array that is not a table
ListAnalysis == [mode |-> "list", fields |-> <<>>, types |-> <<>>, sparseFields |-> {}]

\* the choice of the mode, once the fields, types and sparse fields are known
chooseMode(arr, fields, types, sparseFields) ==
  IF ~allSameStructure(arr, fields) THEN ListAnalysis
  ELSE IF 10 * Cardinality(sparseFields) > 3 * Len(fields)
       THEN [mode |-> "sparse", fields |-> fields, types |-> types,
             sparseFields |-> sparseFields]
  ELSE IF (\E i \in 1..Len(fields) : isDictionaryCandidate(arr, fields[i]))
          /\ Len(arr) > 10
       THEN [mode |-> "dictionary", fields |-> fields, types |-> types,
             sparseFields |-> {}]
  ELSE [mode |-> "columnar", fields |-> fields, types |-> types,
        sparseFields |-> {}]

\* the analysis of an Array whose first element is an Object with the sorted
\* keys fields
analyzeFields(arr, fields) ==
  chooseMode(arr, fields,
             [i \in 1..Len(fields) |-> inferType(Get(arr[1], fields[i]))],
             {fields[i] : i \in {j \in 1..Len(fields) : isSparseField(arr, fields[j])}})

analyzeArray(arr) ==
  IF Len(arr) = 0 THEN ListAnalysis
  ELSE IF arr[1].kind \notin {"date", "obj"} THEN ListAnalysis
  ELSE analyzeFields(arr, sort(ObjectKeys(arr[1])))

(***************************************************************************)
(* Statistics (flux-encoder.ts, calculateStats)                            *)
(***************************************************************************)
\* Number(value) of a primitive; [nan |-> TRUE] stands for NaN
ToNumber(value) ==
  CASE value.kind = "num" -> [nan |-> FALSE, n |-> value.v]
    [] value.kind = "bool" -> [nan |-> FALSE, n |-> IF value.v THEN 1 ELSE 0]
    [] value.kind = "str" ->
         LET t == trim(value.v)
             u == IF t # <<>> /\ t[1] \in {"-", "+"} THEN Tail(t) ELSE t
         IN IF t = <<>> THEN [nan |-> FALSE, n |-> 0]
            ELSE IF IsDigits(u)
                 THEN [nan |-> FALSE,
                       n |-> IF t[1] = "-" THEN -DigitsToNat(u) ELSE DigitsToNat(u)]
            ELSE [nan |-> TRUE, n |-> 0]
    [] OTHER -> [nan |-> TRUE, n |-> 0]

\* a + b
JSAdd(a, b) ==
  IF a.kind \in {"num", "bool"} /\ b.kind \in {"num", "bool"}
  THEN Num(ToNumber(a).n + ToNumber(b).n)
  ELSE Str(JSString(a) \o JSString(b))

\* values.reduce((a, b) => a + b, 0)
RECURSIVE reduceSum(_, _)
reduceSum(acc, values) ==
  IF values = <<>> THEN acc ELSE reduceSum(JSAdd(acc, values[1]), Tail(values))

\* arr.map(item => item[field]).filter(v => v != null)
nonNullValues(arr, field) ==
  LET F[i \in 0..Len(arr)] ==
        IF i = 0 THEN <<>>
        ELSE IF IsNullish(Get(arr[i], field)) THEN F[i - 1]
        ELSE Append(F[i - 1], Get(arr[i], field))
  IN F[Len(arr)]

\* (sum / count).toFixed(2); exact for count < 40, where a tie at the third
\* decimal is representable in binary and rounds away from zero
\* the digits of n hundredths, with the sign of x
fixedDigits(x, n) ==
  (IF x.n < 0 THEN <<"-">> ELSE <<>>) \o NatToString(n \div 100) \o <<".">>
  \o (IF n % 100 < 10 THEN <<"0">> ELSE <<>>) \o NatToString(n % 100)

\* x / count rounded to hundredths
fixedNumber(x, count) ==
  IF x.nan THEN <<"N", "a", "N">>
  ELSE fixedDigits(x, (200 * (IF x.n < 0 THEN -x.n ELSE x.n) + count) \div (2 * count))

toFixed2(sum, count) == fixedNumber(ToNumber(sum), count)

\* the fields that get an entry in stats.sum and stats.avg (stats.min and
\* stats.max are filled too but never read)
hasStat(arr, field, type) ==
  /\ type \in {TypeMarkers.INTEGER, TypeMarkers.FLOAT}
  /\ nonNullValues(arr, field) # <<>>

\* stats.sum[field] and stats.avg[field]
statEntry(sum, count) == [sum |-> JSString(sum), avg |-> toFixed2(sum, count)]

\* the entry of a field with the non-null values
statOf(values) == statEntry(reduceSum(Num(0), values), Len(values))

calculateStats(arr, fields, types) ==
  [i \in {j \in 1..Len(fields) : hasStat(arr, fields[j], types[j])} |->
     statOf(nonNullValues(arr, fields[i]))]

(***************************************************************************)
(* Encoder (flux-encoder.ts, encode)                                       *)
(***************************************************************************)
\* the options of encode with their defaults: mode is destructured and never
\* read, sparseThreshold is never read (its default is the documented one)
DefaultEncodeOptions ==
  [mode |-> "auto", indent |-> 2, types |-> TRUE, stats |-> FALSE,
   compress |-> FALSE, sparseThreshold |-> 30]

\* one data row: the record's fields formatted under the table's types
dataRow(item, analysis, spaces) ==
  spaces \o <<SP, SP>>
  \o join([i \in 1..Len(analysis.fields) |->
             formatValue(Get(item, analysis.fields[i]), analysis.types[i])],
          <<",">>)

\* the sum: and avg: lines of a columnar table
\* the sum: and avg: lines for the statistics computed
statRows(statistics, analysis, spaces) ==
  LET cell(i, which) == IF i \in DOMAIN statistics THEN statistics[i][which] ELSE <<>>
  IN IF DOMAIN statistics # {}
     THEN << spaces \o <<SP, SP, "s", "u", "m", ":", ",">>
               \o join([i \in 1..Len(analysis.fields) |-> cell(i, "sum")], <<",">>),
             spaces \o <<SP, SP, "a", "v", "g", ":", ",">>
               \o join([i \in 1..Len(analysis.fields) |-> cell(i, "avg")], <<",">>) >>
     ELSE <<>>

\* the statistics lines if the path were taken from 5 records on
statLinesFromFive(arr, analysis, spaces, options) ==
  IF options.stats /\ Len(arr) >= 5
  THEN statRows(calculateStats(arr, analysis.fields, analysis.types), analysis, spaces)
  ELSE <<>>

statLines(arr, analysis, spaces, options) ==
  IF options.stats /\ Len(arr) > 5
  THEN statRows(calculateStats(arr, analysis.fields, analysis.types), analysis, spaces)
  ELSE <<>>

\* the lines one element of a list-encoded array pushes
listItem(item, spaces) ==
  IF item.kind \in {"date", "obj"}
  THEN IF Entries(item) = <<>> THEN <<spaces \o <<"-", SP>>>>
       ELSE [idx \in 1..Len(item.v) |->
               LET key == item.v[idx][1]
                   val == item.v[idx][2]
                   formatted == formatValue(val, inferType(val))
               IN spaces \o (IF idx = 1 THEN <<"-", SP>> ELSE <<SP, SP>>)
                         \o key \o <<":", SP>> \o formatted]
  ELSE <<spaces \o <<"-", SP>> \o formatValue(item, inferType(item))>>

\* concatenation of a sequence of sequences
RECURSIVE flatten(_)
flatten(seqs) == IF seqs = <<>> THEN <<>> ELSE seqs[1] \o flatten(Tail(seqs))

\* the header of a table: its first line, the field line and the type line
tableHeader(spaces, prefix, count, mark, fieldLine, typed, typeLine) ==
  spaces \o <<"@">> \o prefix \o <<"[">> \o count \o <<"]">> \o mark \o <<":">>
  \o <<NL>> \o spaces \o <<SP, SP>> \o fieldLine
  \o (IF typed THEN <<NL>> \o spaces \o <<SP, SP>> \o typeLine ELSE <<>>)

\* the lines of a non-empty Array with the analysis of analyzeArray
encodeAnalyzed(arr, prefix, options, spaces, analysis) ==
  IF analysis.mode = "columnar"
  THEN <<tableHeader(spaces, prefix, NumberToString(Len(arr)), <<>>,
                     join(analysis.fields, IF options.types THEN <<SP>> ELSE <<",">>),
                     options.types, join(analysis.types, <<SP>>))>>
       \o statLines(arr, analysis, spaces, options)
       \o [i \in 1..Len(arr) |-> dataRow(arr[i], analysis, spaces)]
  ELSE IF analysis.mode = "sparse"
  THEN <<tableHeader(spaces, prefix, NumberToString(Len(arr)), <<"?">>,
                     join([i \in 1..Len(analysis.fields) |->
                             IF analysis.fields[i] \in analysis.sparseFields
                             THEN analysis.fields[i] \o <<"?">>
                             ELSE analysis.fields[i]], <<SP>>),
                     options.types, join(analysis.types, <<SP>>))>>
       \o [i \in 1..Len(arr) |-> dataRow(arr[i], analysis, spaces)]
  ELSE <<spaces \o prefix \o <<"[">> \o NumberToString(Len(arr)) \o <<"]", ":">>>>
       \o flatten([i \in 1..Len(arr) |-> listItem(arr[i], spaces)])

\* encodeArray with the mode option read: mode 'columnar' renders every table
\* in the columnar layout
encodeArrayByMode(arr, depth, name, options) ==
  IF Len(arr) = 0
  THEN <<repeat(SP, depth * options.indent) \o name \o <<"[", "0", "]", ":">>>>
  ELSE encodeAnalyzed(arr, name, options, repeat(SP, depth * options.indent),
                      IF options.mode = "columnar" /\ analyzeArray(arr).mode # "list"
                      THEN [analyzeArray(arr) EXCEPT !.mode = "columnar"]
                      ELSE analyzeArray(arr))

\* name is <<>> for an Array that is not the value of a key
encodeArray(arr, depth, name, options) ==
  IF Len(arr) = 0
  THEN <<repeat(SP, depth * options.indent) \o name \o <<"[", "0", "]", ":">>>>
  ELSE encodeAnalyzed(arr, name, options, repeat(SP, depth * options.indent),
                      analyzeArray(arr))

RECURSIVE encodeObject(_, _, _)
encodeObject(obj, depth, options) ==
  LET spaces == repeat(SP, depth * options.indent)
  IN flatten([i \in 1..Len(obj.v) |->
       LET key == obj.v[i][1]
           val == obj.v[i][2]
       IN IF val.kind = "arr" THEN encodeArray(val.v, depth, key, options)
          ELSE IF val.kind = "obj"
               THEN <<spaces \o key \o <<":">>>> \o encodeObject(val, depth + 1, options)
          ELSE <<spaces \o key \o <<":", SP>> \o formatValue(val, inferType(val))>>])

encodeValue(val, depth, options) ==
  LET spaces == repeat(SP, depth * options.indent)
  IN IF IsNullish(val) THEN <<spaces \o <<"-">>>>
     ELSE IF val.kind = "arr" THEN encodeArray(val.v, depth, <<>>, options)
     ELSE IF val.kind = "obj" THEN encodeObject(val, depth, options)
     ELSE <<spaces \o formatValue(val, inferType(val))>>

COMPRESSED == <<"#", "F", "L", "U", "X", ":", "C", "O", "M", "P", "R", "E", "S", "S", "E", "D">>

\* encode with the marker put in front of the text without a line break
encodeMarkerJoined(value, options) ==
  (IF options.compress THEN COMPRESSED ELSE <<>>)
  \o join(encodeValue(value, 0, options), <<NL>>)

encode(value, options) ==
  (IF options.compress THEN COMPRESSED \o <<NL>> ELSE <<>>)
  \o join(encodeValue(value, 0, options), <<NL>>)

(***************************************************************************)
(* Scalar parsing (FLUX Decoder in flux-examples.ts)                       *)
(***************************************************************************)
\* s[p], or "" past the end
At(s, p) == IF p \in 1..Len(s) THEN s[p] ELSE ""

\* the number with decimal digits whole "." frac and the given sign
Decimal(negative, whole, frac) ==
  LET w == DropFrom(whole, 1 + (IF AllIn(whole, {"0"}) THEN Len(whole)
                                ELSE RunFrom(whole, 1, {"0"})))
      f == IF AllIn(frac, {"0"}) THEN <<>>
           ELSE SubSeq(frac, 1, CHOOSE i \in 1..Len(frac) :
                                  frac[i] # "0" /\ \A j \in (i + 1)..Len(frac) : frac[j] = "0")
  IN IF f = <<>>
     THEN Num(IF negative THEN -DigitsToNat(w) ELSE DigitsToNat(w))
     ELSE Float((IF negative THEN <<"-">> ELSE <<>>)
                \o (IF w = <<>> THEN <<"0">> ELSE w) \o <<".">> \o f)

Ok(val) == [err |-> "none", val |-> val]
Throw(name) == [err |-> name, val |-> Undefined]

\* parseInt(str, 10): sign and leading digits, the rest is ignored
parseInt(str) ==
  LET t == trimStart(str)
      signed == At(t, 1) \in {"-", "+"}
      u == IF signed THEN Tail(t) ELSE t
      k == RunFrom(u, 1, Digit)
  IN IF k = 0 THEN Throw("NaN")
     ELSE Ok(Decimal(At(t, 1) = "-", SubSeq(u, 1, k), <<>>))

\* parseFloat(str): the longest leading decimal literal (texts of the model
\* have no exponent part and do not spell Infinity)
parseFloat(str) ==
  LET t == trimStart(str)
      signed == At(t, 1) \in {"-", "+"}
      u == IF signed THEN Tail(t) ELSE t
      k == RunFrom(u, 1, Digit)
      f == IF At(u, k + 1) = "." THEN RunFrom(u, k + 2, Digit) ELSE 0
  IN IF k = 0 /\ f = 0 THEN Throw("NaN")
     ELSE Ok(Decimal(At(t, 1) = "-", SubSeq(u, 1, k), SubSeq(u, k + 2, k + 1 + f)))

unquoteString(str) ==
  IF startsWith(str, <<DQ>>) /\ endsWith(str, <<DQ>>)
  THEN replaceAll(
         replaceAll(
           replaceAll(
             replaceAll(
               replaceAll(SubSeq(str, 2, Len(str) - 1), <<BSL, "n">>, <<NL>>),
               <<BSL, "r">>, <<CR>>),
             <<BSL, "t">>, <<TAB>>),
           <<BSL, DQ>>, <<DQ>>),
         <<BSL, BSL>>, <<BSL>>)
  ELSE str

(***************************************************************************)
(* JSON.parse: a result is [ok, val, pos], pos the next unread position    *)
(***************************************************************************)
JsonFail == [ok |-> FALSE, val |-> Undefined, pos |-> 0]

jsonWs(s, p) == p + RunFrom(s, p, WS)

JsonEscapes ==
  [c \in {DQ, BSL, "/", "n", "r", "t"} |->
     CASE c = "n" -> NL [] c = "r" -> CR [] c = "t" -> TAB [] OTHER -> c]

\* the characters of a string literal from p, after the opening quote
\* (\b, \f and \uXXXX escapes are outside the texts of the model)
RECURSIVE jsonChars(_, _, _)
jsonChars(s, p, acc) ==
  IF p > Len(s) \/ s[p] \in {NL, CR, TAB} THEN JsonFail
  ELSE IF s[p] = DQ THEN [ok |-> TRUE, val |-> Str(acc), pos |-> p + 1]
  ELSE IF s[p] = BSL
       THEN IF At(s, p + 1) \in DOMAIN JsonEscapes
            THEN jsonChars(s, p + 2, Append(acc, JsonEscapes[s[p + 1]]))
            ELSE JsonFail
  ELSE jsonChars(s, p + 1, Append(acc, s[p]))

\* -?(0|[1-9]\d*)(\.\d+)?
jsonNumber(s, p) ==
  LET q == IF At(s, p) = "-" THEN p + 1 ELSE p
      k == RunFrom(s, q, Digit)
      f == IF At(s, q + k) = "." THEN RunFrom(s, q + k + 1, Digit) ELSE 0
  IN IF k = 0 \/ (k > 1 /\ s[q] = "0") \/ (At(s, q + k) = "." /\ f = 0)
     THEN JsonFail
     ELSE [ok |-> TRUE,
           val |-> Decimal(q > p, SubSeq(s, q, q + k - 1),
                           SubSeq(s, q + k + 1, q + k + f)),
           pos |-> IF f = 0 THEN q + k ELSE q + k + 1 + f]

RECURSIVE jsonValue(_, _)
RECURSIVE jsonElements(_, _, _)
RECURSIVE jsonMembers(_, _, _)

\* what follows the element e of an array
jsonAfterElement(s, acc, e) ==
  LET q == jsonWs(s, e.pos)
  IN IF ~e.ok THEN JsonFail
     ELSE IF At(s, q) = "," THEN jsonElements(s, q + 1, Append(acc, e.val))
     ELSE IF At(s, q) = "]"
          THEN [ok |-> TRUE, val |-> Arr(Append(acc, e.val)), pos |-> q + 1]
     ELSE JsonFail

\* the elements of an array from p, after "[" or ","
jsonElements(s, p, acc) == jsonAfterElement(s, acc, jsonValue(s, jsonWs(s, p)))

\* what follows the value e of the member key of an object
jsonAfterMember(s, acc, key, e) ==
  LET q == jsonWs(s, e.pos)
  IN IF ~e.ok THEN JsonFail
     ELSE IF At(s, q) = "," THEN jsonMembers(s, q + 1, SetProp(acc, key.val.v, e.val))
     ELSE IF At(s, q) = "}"
          THEN [ok |-> TRUE, val |-> Obj(SetProp(acc, key.val.v, e.val)), pos |-> q + 1]
     ELSE JsonFail

\* what follows the key of a member of an object
jsonAfterKey(s, acc, key) ==
  LET c == jsonWs(s, key.pos)
  IN IF ~key.ok \/ At(s, c) # ":" THEN JsonFail
     ELSE jsonAfterMember(s, acc, key, jsonValue(s, jsonWs(s, c + 1)))

\* the members of an object from p, after "{" or ","
jsonMembers(s, p, acc) ==
  jsonAfterKey(s, acc,
               IF At(s, jsonWs(s, p)) = DQ THEN jsonChars(s, jsonWs(s, p) + 1, <<>>)
               ELSE JsonFail)

jsonValue(s, p) ==
  LET lit(word, val) ==
        IF p + Len(word) - 1 <= Len(s) /\ SubSeq(s, p, p + Len(word) - 1) = word
        THEN [ok |-> TRUE, val |-> val, pos |-> p + Len(word)]
        ELSE JsonFail
  IN CASE At(s, p) = "n" -> lit(<<"n", "u", "l", "l">>, Null)
       [] At(s, p) = "t" -> lit(<<"t", "r", "u", "e">>, Bool(TRUE))
       [] At(s, p) = "f" -> lit(<<"f", "a", "l", "s", "e">>, Bool(FALSE))
       [] At(s, p) = DQ -> jsonChars(s, p + 1, <<>>)
       [] At(s, p) = "[" ->
            IF At(s, jsonWs(s, p + 1)) = "]"
            THEN [ok |-> TRUE, val |-> Arr(<<>>), pos |-> jsonWs(s, p + 1) + 1]
            ELSE jsonElements(s, p + 1, <<>>)
       [] At(s, p) = "{" ->
            IF At(s, jsonWs(s, p + 1)) = "}"
            THEN [ok |-> TRUE, val |-> Obj(<<>>), pos |-> jsonWs(s, p + 1) + 1]
            ELSE jsonMembers(s, p + 1, <<>>)
       [] At(s, p) \in Digit \cup {"-"} -> jsonNumber(s, p)
       [] OTHER -> JsonFail

\* the value r read from the start of str, if nothing but blanks follows it
jsonWhole(str, r) ==
  IF r.ok /\ jsonWs(str, r.pos) = Len(str) + 1 THEN Ok(r.val)
  ELSE Throw("SyntaxError")

JSONparse(str) == jsonWhole(str, jsonValue(str, jsonWs(str, 1)))

\* the fallback of parseValue for an unknown type marker
inferValue(str) ==
  IF str = <<"T">> THEN Ok(Bool(TRUE))
  ELSE IF str = <<"F">> THEN Ok(Bool(FALSE))
  ELSE IF str = <<"n", "u", "l", "l">> THEN Ok(Null)
  ELSE IF IsDigits(IF At(str, 1) = "-" THEN Tail(str) ELSE str) THEN parseInt(str)
  ELSE IF LET u == IF At(str, 1) = "-" THEN Tail(str) ELSE str
              k == RunFrom(u, 1, Digit)
          IN At(u, k + 1) = "." /\ IsDigits(DropFrom(u, k + 2))
       THEN parseFloat(str)
  ELSE Ok(Str(unquoteString(str)))

\* a number parsed under the Integer or Float tag: NaN is an Error
numberOrError(parsed) == IF parsed.err # "none" THEN Throw("Error") ELSE parsed

\* parseValue with the null check as the last case of the switch, next to
\* the Null tag, instead of before it
parseValueNullLast(raw, typeMarker) ==
  LET str == trim(raw)
  IN IF typeMarker = TypeMarkers.BOOLEAN
          THEN IF str = <<"T">> THEN Ok(Bool(TRUE))
               ELSE IF str = <<"F">> THEN Ok(Bool(FALSE))
               ELSE Throw("Error")
     ELSE IF typeMarker = TypeMarkers.INTEGER THEN numberOrError(parseInt(str))
     ELSE IF typeMarker = TypeMarkers.FLOAT THEN numberOrError(parseFloat(str))
     ELSE IF typeMarker = TypeMarkers.TIMESTAMP THEN Ok(Str(str))
     ELSE IF typeMarker \in StringFamily THEN Ok(Str(unquoteString(str)))
     ELSE IF typeMarker = TypeMarkers.JSON THEN JSONparse(str)
     ELSE IF typeMarker = TypeMarkers.NULL THEN Ok(Null)
     ELSE IF str = <<"-">> \/ str = <<>> THEN Ok(Null)
     ELSE inferValue(str)

\* the result is [err, val]: err is "none", or the name of the exception
parseValue(raw, typeMarker) ==
  LET str == trim(raw)
  IN IF str = <<"-">> \/ str = <<>> THEN Ok(Null)
     ELSE IF typeMarker = TypeMarkers.BOOLEAN
          THEN IF str = <<"T">> THEN Ok(Bool(TRUE))
               ELSE IF str = <<"F">> THEN Ok(Bool(FALSE))
               ELSE Throw("Error")
     ELSE IF typeMarker = TypeMarkers.INTEGER THEN numberOrError(parseInt(str))
     ELSE IF typeMarker = TypeMarkers.FLOAT THEN numberOrError(parseFloat(str))
     ELSE IF typeMarker = TypeMarkers.TIMESTAMP THEN Ok(Str(str))
     ELSE IF typeMarker \in StringFamily THEN Ok(Str(unquoteString(str)))
     ELSE IF typeMarker = TypeMarkers.JSON THEN JSONparse(str)
     ELSE IF typeMarker = TypeMarkers.NULL THEN Ok(Null)
     ELSE inferValue(str)

RECURSIVE csvScan(_, _, _, _, _)
csvScan(line, i, current, inQuotes, result) ==
  IF i > Len(line) THEN Append(result, trim(current))
  ELSE IF line[i] = DQ
       THEN IF inQuotes /\ At(line, i + 1) = DQ
            THEN csvScan(line, i + 2, Append(current, DQ), inQuotes, result)
            ELSE csvScan(line, i + 1, Append(current, DQ), ~inQuotes, result)
  ELSE IF line[i] = "," /\ ~inQuotes
       THEN csvScan(line, i + 1, <<>>, inQuotes, Append(result, trim(current)))
  ELSE csvScan(line, i + 1, Append(current, line[i]), inQuotes, result)

splitCsvLine(line) == csvScan(line, 1, <<>>, FALSE, <<>>)

(***************************************************************************)
(* Line parser (FLUX Decoder, decode)                                      *)
(*                                                                         *)
(* currentLine is the 0-based cursor of the code.  Every parser returns    *)
(* [val, cur, err, line]: the value, the cursor after the call, and the    *)
(* exception that ended it ("none" when it returned) with the line number  *)
(* a FluxDecodeError was constructed with.                                 *)
(***************************************************************************)
Return(val, cur) == [val |-> val, cur |-> cur, err |-> "none", line |-> 0]
Raise(name, cur, line) == [val |-> Undefined, cur |-> cur, err |-> name, line |-> line]

\* line.length - line.trimStart().length
indentOf(line) == RunFrom(line, 1, WS)

\* /^\s*@(\w+)?\[(\d+)\]([?~^]*):\s*$/
arrayMatch(line) ==
  LET a == 1 + RunFrom(line, 1, WS)
      b == a + 1 + RunFrom(line, a + 1, Word)
      d == RunFrom(line, b + 1, Digit)
      c == b + 1 + d
      m == RunFrom(line, c + 1, {"?", "~", "^"})
      e == c + 1 + m
  IN IF /\ At(line, a) = "@"
        /\ At(line, b) = "["
        /\ d > 0
        /\ At(line, c) = "]"
        /\ At(line, e) = ":"
        /\ AllIn(DropFrom(line, e + 1), WS)
     THEN [ok |-> TRUE, name |-> SubSeq(line, a + 1, b - 1),
           count |-> DigitsToNat(SubSeq(line, b + 1, c - 1)),
           modifiers |-> SubSeq(line, c + 1, e - 1)]
     ELSE [ok |-> FALSE, name |-> <<>>, count |-> 0, modifiers |-> <<>>]

\* /^\s*(\w+)?\[(\d+)\]:\s*(.*)$/
simpleArrayMatch(line) ==
  LET b == 1 + RunFrom(line, 1, WS) + RunFrom(line, 1 + RunFrom(line, 1, WS), Word)
      d == RunFrom(line, b + 1, Digit)
      c == b + 1 + d
      r == c + 2 + RunFrom(line, c + 2, WS)
  IN IF /\ At(line, b) = "["
        /\ d > 0
        /\ At(line, c) = "]"
        /\ At(line, c + 1) = ":"
        /\ \A i \in r..Len(line) : line[i] \notin LineTerm
     THEN [ok |-> TRUE, values |-> DropFrom(line, r)]
     ELSE [ok |-> FALSE, values |-> <<>>]

\* /^\s*(\w+):\s*(.*)$/ with at least minWs and at most maxWs leading blanks
keyValueMatch(line, minWs, maxWs) ==
  LET a == 1 + RunFrom(line, 1, WS)
      w == RunFrom(line, a, Word)
      r == a + w + 1 + RunFrom(line, a + w + 1, WS)
  IN IF /\ a - 1 >= minWs
        /\ a - 1 <= maxWs
        /\ w > 0
        /\ At(line, a + w) = ":"
        /\ \A i \in r..Len(line) : line[i] \notin LineTerm
     THEN [ok |-> TRUE, key |-> SubSeq(line, a, a + w - 1), value |-> DropFrom(line, r)]
     ELSE [ok |-> FALSE, key |-> <<>>, value |-> <<>>]

\* /^\s*(\w+):\s*(.*)$/
kvMatch(line) == keyValueMatch(line, 0, Len(line))

\* /^(\w+):\s*(.*)$/
itemKvMatch(itemLine) == keyValueMatch(itemLine, 0, 0)

\* /^\s+(\w+):\s*(.*)$/
fieldMatch(fieldLine) == keyValueMatch(fieldLine, 1, Len(fieldLine))

isListItem(line) == startsWith(trim(line), <<"-", SP>>)

isStatLine(line) ==
  \E p \in {<<"s", "u", "m", ":">>, <<"a", "v", "g", ":">>, <<"m", "i", "n", ":">>,
            <<"m", "a", "x", ":">>, <<"p", "5", "0", ":">>, <<"p", "9", "5", ":">>} :
    startsWith(trim(line), p)

\* field.replace('?', '')
cleanField(field) ==
  LET k == indexOf(field, <<"?">>)
  IN IF k = 0 THEN field ELSE SubSeq(field, 1, k - 1) \o DropFrom(field, k + 1)

RECURSIVE rowRecord(_, _, _, _, _)

\* the step of rowRecord for the field idx, whose cell was parsed
rowField(fields, types, values, idx, pairs, parsed) ==
  IF parsed.err # "none" THEN parsed
  ELSE rowRecord(fields, types, values, idx + 1,
                 SetProp(pairs, cleanField(fields[idx]), parsed.val))

\* the record of one data row: fields.forEach((field, idx) => ...) from idx
rowRecord(fields, types, values, idx, pairs) ==
  IF idx > Len(fields) THEN Ok(Obj(pairs))
  ELSE rowField(fields, types, values, idx, pairs,
                IF idx <= Len(values)
                THEN parseValue(values[idx],
                                IF idx <= Len(types) THEN types[idx]
                                ELSE TypeMarkers.STRING)
                ELSE Throw("TypeError"))

RECURSIVE dataRows(_, _, _, _, _, _, _, _, _)

\* the step of dataRows for the record obj of the row at the cursor
dataRecord(lines, strict, count, modifiers, indent, fields, types, i, st, obj) ==
  IF obj.err # "none" THEN Raise(obj.err, st.cur, 0)
  ELSE dataRows(lines, strict, count, modifiers, indent, fields, types, i + 1,
                [cur |-> st.cur + 1, rows |-> Append(st.rows, obj.val)])

\* dataValues without the comparison of values.length with fields.length
dataValuesUnchecked(lines, strict, count, modifiers, indent, fields, types, i, st, values) ==
  IF indentOf(lines[st.cur + 1]) <= indent THEN Return(Arr(st.rows), st.cur)
  ELSE dataRecord(lines, strict, count, modifiers, indent, fields, types, i, st,
                  rowRecord(fields, types, values, 1, <<>>))

\* the step of dataRows for the row at the cursor, split into values
dataValues(lines, strict, count, modifiers, indent, fields, types, i, st, values) ==
  IF indentOf(lines[st.cur + 1]) <= indent THEN Return(Arr(st.rows), st.cur)
  ELSE IF Len(values) # Len(fields) /\ strict /\ indexOf(modifiers, <<"?">>) = 0
       THEN Raise("FluxDecodeError", st.cur, st.cur)
  ELSE dataRecord(lines, strict, count, modifiers, indent, fields, types, i, st,
                  rowRecord(fields, types, values, 1, <<>>))

\* the loop over the data rows, from row i with the cursor at st.cur
dataRows(lines, strict, count, modifiers, indent, fields, types, i, st) ==
  IF i >= count THEN Return(Arr(st.rows), st.cur)
  ELSE IF st.cur >= Len(lines)
       THEN (IF strict THEN Raise("FluxDecodeError", st.cur, st.cur)
             ELSE Return(Arr(st.rows), st.cur))
  ELSE dataValues(lines, strict, count, modifiers, indent, fields, types, i, st,
                  splitCsvLine(trim(lines[st.cur + 1])))

\* the number of statistics lines from the line after cursor afterTypes
statRun(lines, afterTypes) ==
  IF \A k \in (afterTypes + 1)..Len(lines) : isStatLine(lines[k])
  THEN Len(lines) - afterTypes
  ELSE (CHOOSE k \in (afterTypes + 1)..Len(lines) :
          /\ ~isStatLine(lines[k])
          /\ \A j \in (afterTypes + 1)..(k - 1) : isStatLine(lines[j]))
       - afterTypes - 1

\* the table whose field line is at the cursor; typed when a type line follows
parseTable(lines, strict, count, modifiers, indent, cur, typed) ==
  dataRows(lines, strict, count, modifiers, indent,
           splitWs(trim(lines[cur + 1])),
           IF typed THEN splitWs(trim(lines[cur + 2])) ELSE <<>>,
           0,
           [cur |-> (IF typed THEN cur + 2 ELSE cur + 1)
                    + statRun(lines, IF typed THEN cur + 2 ELSE cur + 1),
            rows |-> <<>>])

\* called with the cursor (cur) on the line after the table header
parseArray(lines, strict, count, modifiers, indent, cur) ==
  IF cur >= Len(lines) \/ lines[cur + 1] = <<>> THEN Return(Arr(<<>>), cur)
  ELSE parseTable(lines, strict, count, modifiers, indent, cur,
                  /\ cur + 1 < Len(lines)
                  /\ lines[cur + 2] # <<>>
                  /\ startsWith(trim(lines[cur + 2]), <<"@">>))

RECURSIVE itemFields(_, _, _)

\* the step of itemFields for the line at the cursor, matched as m
itemField(lines, cur, pairs, m) ==
  IF ~isListItem(lines[cur + 1]) /\ trim(lines[cur + 1]) # <<>> /\ m.ok
  THEN itemFields(lines, cur + 1,
                  SetProp(pairs, m.key, parseValue(m.value, TypeMarkers.STRING).val))
  ELSE [pairs |-> pairs, cur |-> cur]

\* the continuation lines of a list-item record
itemFields(lines, cur, pairs) ==
  IF cur < Len(lines) THEN itemField(lines, cur, pairs, fieldMatch(lines[cur + 1]))
  ELSE [pairs |-> pairs, cur |-> cur]

RECURSIVE listItems(_, _, _)

\* the step of listItems for a record with its continuation lines read
listRecord(lines, items, rec) == listItems(lines, rec.cur, Append(items, Obj(rec.pairs)))

\* the step of listItems for the item after "- ", matched as m
listItemAt(lines, cur, items, itemLine, m) ==
  IF m.ok
  THEN listRecord(lines, items,
                  itemFields(lines, cur + 1,
                             <<<<m.key, parseValue(m.value, TypeMarkers.STRING).val>>>>))
  ELSE listItems(lines, cur + 1,
                 Append(items, parseValue(itemLine, TypeMarkers.STRING).val))

\* the step of listItems for the item after "- "
listItemLine(lines, cur, items, itemLine) ==
  listItemAt(lines, cur, items, itemLine, itemKvMatch(itemLine))

\* the loop over consecutive list-item lines
listItems(lines, cur, items) ==
  IF cur < Len(lines) /\ isListItem(lines[cur + 1])
  THEN listItemLine(lines, cur, items,
                    DropFrom(lines[cur + 1], indexOf(lines[cur + 1], <<"-", SP>>) + 2))
  ELSE Return(Arr(items), cur)

RECURSIVE parseLine(_, _, _)
RECURSIVE parseObject(_, _, _, _, _)

\* the elements of an inline array
inlineItems(items, cur) ==
  Return(Arr([i \in 1..Len(items) |-> parseValue(items[i], TypeMarkers.STRING).val]),
         cur + 1)

\* the Object with the key of a key-value line and the nested Object parsed
nestedValue(key, nested) ==
  IF nested.err # "none" THEN nested
  ELSE Return(Obj(<<<<key, nested.val>>>>), nested.cur)

\* lineShape whose last branch returns without `currentLine++`
lineShapeStalled(lines, strict, cur, line, am, sm, kv) ==
  IF am.ok
  THEN parseArray(lines, strict, am.count, am.modifiers, indentOf(line), cur + 1)
  ELSE IF sm.ok /\ sm.values # <<>> THEN inlineItems(splitCsvLine(sm.values), cur)
  ELSE IF kv.ok
       THEN IF kv.value = <<>>
            THEN nestedValue(kv.key,
                             parseObject(lines, strict, indentOf(line) + 2, cur + 1, <<>>))
            ELSE Return(Obj(<<<<kv.key,
                                parseValue(kv.value, TypeMarkers.STRING).val>>>>),
                        cur + 1)
  ELSE IF isListItem(line) THEN listItems(lines, cur, <<>>)
  ELSE Return(Undefined, cur)

\* the branches of parseLine for a line that is neither blank nor a comment,
\* with the matches of the three patterns
lineShape(lines, strict, cur, line, am, sm, kv) ==
  IF am.ok
  THEN parseArray(lines, strict, am.count, am.modifiers, indentOf(line), cur + 1)
  ELSE IF sm.ok /\ sm.values # <<>> THEN inlineItems(splitCsvLine(sm.values), cur)
  ELSE IF kv.ok
       THEN IF kv.value = <<>>
            THEN nestedValue(kv.key,
                             parseObject(lines, strict, indentOf(line) + 2, cur + 1, <<>>))
            ELSE Return(Obj(<<<<kv.key,
                                parseValue(kv.value, TypeMarkers.STRING).val>>>>),
                        cur + 1)
  ELSE IF isListItem(line) THEN listItems(lines, cur, <<>>)
  ELSE Return(Undefined, cur + 1)

parseLine(lines, strict, cur) ==
  IF cur >= Len(lines) THEN Return(Undefined, cur)
  ELSE IF trim(lines[cur + 1]) = <<>> \/ startsWith(trim(lines[cur + 1]), <<"#">>)
       THEN parseLine(lines, strict, cur + 1)
  ELSE lineShape(lines, strict, cur, lines[cur + 1], arrayMatch(lines[cur + 1]),
                 simpleArrayMatch(lines[cur + 1]), kvMatch(lines[cur + 1]))

\* Object.assign(obj, result) when result is an Object or an Array
merged(pairs, result) ==
  IF result.val.kind \in {"arr", "obj"} THEN AssignPairs(pairs, Entries(result.val))
  ELSE pairs

\* the step of parseObject for the result of parseLine
objectLine(lines, strict, indent, pairs, result) ==
  IF result.err # "none" THEN result
  ELSE parseObject(lines, strict, indent, result.cur, merged(pairs, result))

\* pairs are the properties collected so far
parseObject(lines, strict, indent, cur, pairs) ==
  IF cur >= Len(lines) THEN Return(Obj(pairs), cur)
  ELSE IF trim(lines[cur + 1]) = <<>>
       THEN parseObject(lines, strict, indent, cur + 1, pairs)
  ELSE IF indentOf(lines[cur + 1]) < indent THEN Return(Obj(pairs), cur)
  ELSE objectLine(lines, strict, indent, pairs, parseLine(lines, strict, cur))

DefaultDecodeOptions == [strict |-> TRUE, decompress |-> TRUE]

RECURSIVE decodeLoop(_, _, _, _)

\* the step of the top-level loop for the result of parseLine
rootLine(lines, strict, pairs, parsed) ==
  IF parsed.err # "none" THEN parsed
  ELSE decodeLoop(lines, strict, parsed.cur, merged(pairs, parsed))

\* the top-level loop: the root Object is parseObject without an indent bound
\* and without its blank-line shortcut, which parseLine takes as well
decodeLoop(lines, strict, cur, pairs) ==
  IF cur >= Len(lines) THEN Return(Obj(pairs), cur)
  ELSE rootLine(lines, strict, pairs, parseLine(lines, strict, cur))

decode(input, options) ==
  LET k == indexOf(input, <<NL>>)
      text == IF startsWith(input, COMPRESSED) /\ options.decompress
              THEN DropFrom(input, k + 1)
              ELSE input
  IN decodeLoop(split(text, NL), options.strict, 0, <<>>)

(***************************************************************************)
(* The calls: a caller passes a value to encode and the text to decode     *)
(* with the default options ("encode") or with options of its own          *)
(* ("configure"), passes a text of its own to decode, or quotes and        *)
(* unquotes a string.                                                      *)
(***************************************************************************)
VARIABLES call, pc, value, options, text, decodeOptions, result

vars == <<call, pc, value, options, text, decodeOptions, result>>

MaxItems == 2     \* elements of an Array of scalars or of records
MaxRows == 11     \* records of a long single-field Array
MaxTokenLen == 2  \* characters of a token of a text written by the caller
MaxLen == 2       \* characters of a string that is quoted and unquoted

NoValue == [kind |-> "none", v |-> 0]
NoResult == [val |-> NoValue, cur |-> 0, err |-> "none", line |-> 0]

Scalars ==
  {Null, Undefined, Bool(TRUE), Bool(FALSE), Num(7), Num(25),
   Str(<<"x">>), Str(<<"T">>), Str(<<"-">>)}
ItemScalars == {Null, Undefined, Bool(TRUE), Bool(FALSE), Num(7), Str(<<"x">>)}
CellScalars == {Null, Bool(TRUE), Str(<<"x">>)}

KeyOrders ==
  {<<<<"a">>>>, <<<<"a">>, <<"b">>>>, <<<<"b">>, <<"a">>>>}

\* the Objects with the keys ks, in this order, and values of S
ObjectsOver(ks, S) ==
  {Obj([i \in 1..Len(ks) |-> <<ks[i], f[i]>>]) : f \in [1..Len(ks) -> S]}

FlatObjects == UNION {ObjectsOver(ks, Scalars) : ks \in KeyOrders}
ScalarArrays == UNION {[1..n -> ItemScalars] : n \in 1..MaxItems}
\* the records with the key a, alone or before or after the key b
Records ==
  UNION {{Obj(<<<<<<"a">>, v>>>>),
          Obj(<<<<<<"a">>, v>>, <<<<"b">>, Str(<<"x">>)>>>>),
          Obj(<<<<<<"b">>, Str(<<"x">>)>>, <<<<"a">>, v>>>>)} : v \in CellScalars}
RecordArrays == UNION {[1..n -> Records] : n \in 0..MaxItems}

Cycles ==
  {<<Num(0)>>, <<Num(0), Num(1)>>, <<Num(0), Num(1), Num(2)>>, <<Null, Num(1)>>,
   <<Undefined, Num(1)>>, <<Bool(TRUE), Bool(FALSE)>>, <<Null>>}

\* n records {a: v}, v running through cycle; with odd, the last record has
\* the key b instead
LongArray(n, cycle, odd) ==
  [i \in 1..n |->
     Obj(<<<<IF odd /\ i = n THEN <<"b">> ELSE <<"a">>,
             cycle[(i % Len(cycle)) + 1]>>>>)]

LongArrays ==
  {LongArray(n, cycle, odd) : n \in 1..MaxRows, cycle \in Cycles, odd \in BOOLEAN}

NestedObjects ==
  {Obj(<<<<<<"o">>, o>>>>) : o \in ObjectsOver(<<<<"a">>>>, ItemScalars)}
  \cup {Obj(<<<<<<"o">>, Obj(<<<<<<"p">>, o>>, <<<<"b">>, Str(<<"x">>)>>>>)>>,
              <<<<"c">>, Num(7)>>>>) : o \in ObjectsOver(<<<<"a">>>>, ItemScalars)}
  \cup {Obj(<<<<<<"o">>, Obj(<<<<<<"u">>, Arr(r)>>>>)>>>>) :
          r \in [1..1 -> ObjectsOver(<<<<"a">>>>, CellScalars)]}

\* an arrow function and a symbol
Unsupported == {Fn(<<"(", ")", "=", ">", "1">>), Sym(<<"s">>)}

\* the trees that hold a function or a symbol: as the root, as the value of
\* a key, as a list item and as a table cell
UnsupportedTrees ==
  UNION {{f, Obj(<<<<<<"a">>, f>>>>), Arr(<<f>>), Obj(<<<<<<"t">>, Arr(<<f>>)>>>>),
          Obj(<<<<<<"u">>, Arr(<<Obj(<<<<<<"a">>, f>>>>)>>)>>>>)} : f \in Unsupported}

\* strings that needsQuoting is documented to quote: empty, blank or line
\* break at an end, a reserved character inside, a reserved word, a number
QuotedSamples ==
  {<<>>, <<SP, "x">>, <<"x", SP>>, <<NL, "x">>, <<"a", ",", "b">>, <<"a", TAB, "b">>,
   <<"a", "|", "b">>, <<"a", ":", "b">>, <<"a", DQ, "b">>, <<"a", BSL, "b">>, <<"-">>,
   <<"T">>, <<"F">>, <<"7">>, <<"4", "2">>, <<"1", ".", "5">>, <<"-", "5">>,
   <<".", "5">>, <<"-", ".", "5">>, <<"n", "u", "l", "l">>, <<"t", "r", "u", "e">>,
   <<"f", "a", "l", "s", "e">>, <<"-", SP, "x">>,
   <<"h", "t", "t", "p", "s", ":", "/", "/", "a", ".", "i", "o">>}

\* strings that miss every rule of needsQuoting, most of them narrowly
VerbatimSamples ==
  {<<"x">>, <<"a", SP, "b">>, <<"-", "x">>, <<"T", "T">>, <<"t">>, <<"T", "x">>,
   <<"n", "u", "l">>, <<"n", "u", "l", "l", "s">>, <<"T", "r", "u", "e">>,
   <<"N", "U", "L", "L">>, <<"1", "a">>, <<"a", "1">>, <<"1", ".">>, <<"1", "e", "5">>,
   <<"-", "-">>, <<"-", "a", SP, "b">>, <<"a", "-">>, <<"a", ".", "b">>,
   <<"x", ";", "y">>, <<"a", "/", "b">>, <<"-", ".">>, <<"+", "5">>,
   <<"1", ".", "2", ".", "3">>, <<"a", NL, "b">>, <<"a", CR, "b">>,
   <<"a", "@", "b", ".", "i", "o">>}

\* the Objects {k: s} of the sample strings
SampleObjects ==
  {Obj(<<<<<<"k">>, Str(s)>>>>) : s \in QuotedSamples \cup VerbatimSamples}

\* values with the tag the inference order gives them: one value for every
\* rule, and strings that narrowly miss the e-mail, URL, UUID, hash and
\* timestamp patterns
TypeSamples ==
  {<<Null, TypeMarkers.NULL>>,
   <<Undefined, TypeMarkers.NULL>>,
   <<Bool(TRUE), TypeMarkers.BOOLEAN>>,
   <<Bool(FALSE), TypeMarkers.BOOLEAN>>,
   <<Num(7), TypeMarkers.INTEGER>>,
   <<Num(0), TypeMarkers.INTEGER>>,
   <<Float(<<"1", ".", "5">>), TypeMarkers.FLOAT>>,
   <<Date(<<"2", "0", "2", "4", "-", "0", "1", "-", "1", "5", "T", "1", "0", ":", "3", "0", ":", "0", "0", ".", "0", "0", "0", "Z">>),
     TypeMarkers.TIMESTAMP>>,
   <<Str(<<"a", "l", "i", "c", "e", "@", "e", "x", "a", "m", "p", "l", "e", ".", "c", "o", "m">>),
     TypeMarkers.EMAIL>>,
   <<Str(<<"a", "@", "b">>), TypeMarkers.STRING>>,
   <<Str(<<"h", "t", "t", "p", "s", ":", "/", "/", "e", "x", "a", "m", "p", "l", "e", ".", "c", "o", "m">>),
     TypeMarkers.URL>>,
   <<Str(<<"h", "t", "t", "p", ":", "/", "/">>), TypeMarkers.STRING>>,
   <<Str(<<"5", "5", "0", "e", "8", "4", "0", "0", "-", "e", "2", "9", "b", "-", "4", "1", "d", "4", "-", "a", "7", "1", "6", "-", "4", "4", "6", "6", "5", "5", "4", "4", "0", "0", "0", "0">>),
     TypeMarkers.UUID>>,
   <<Str(<<"5", "5", "0", "e", "8", "4", "0", "0", "-", "e", "2", "9", "b", "-", "4", "1", "d", "4", "-", "a", "7", "1", "6", "-", "4", "4", "6", "6", "5", "5", "4", "4", "0", "0", "0">>),
     TypeMarkers.STRING>>,
   <<Str(<<"D", "4", "1", "D", "8", "C", "D", "9", "8", "F", "0", "0", "B", "2", "0", "4", "E", "9", "8", "0", "0", "9", "9", "8", "E", "C", "F", "8", "4", "2", "7", "E">>),
     TypeMarkers.HASH>>,
   <<Str(<<"d", "4", "1", "d", "8", "c", "d", "9", "8", "f", "0", "0", "b", "2", "0", "4", "e", "9", "8", "0", "0", "9", "9", "8", "e", "c", "f", "8", "4", "2", "7">>),
     TypeMarkers.STRING>>,
   <<Str(<<"2", "0", "2", "4", "-", "0", "1", "-", "1", "5", "T", "1", "0", ":", "3", "0", ":", "0", "0", "Z">>),
     TypeMarkers.TIMESTAMP>>,
   <<Str(<<"2", "0", "2", "4", "-", "0", "1", "-", "1", "5">>), TypeMarkers.STRING>>,
   <<Str(<<"x">>), TypeMarkers.STRING>>,
   <<Str(<<"7">>), TypeMarkers.STRING>>,
   <<Str(<<"t", "r", "u", "e">>), TypeMarkers.STRING>>,
   <<Obj(<<>>), TypeMarkers.JSON>>,
   <<Obj(<<<<<<"x">>, Num(1)>>>>), TypeMarkers.JSON>>,
   <<Arr(<<Num(1)>>), TypeMarkers.JSON>>}

\* tables whose first record holds a sample, alone or before a record with
\* a value of another type
TypedArrays ==
  {<<Obj(<<<<<<"a">>, s[1]>>>>)>> : s \in TypeSamples}
  \cup {<<Obj(<<<<<<"a">>, s[1]>>>>), Obj(<<<<<<"a">>, w>>>>)>> :
          s \in TypeSamples, w \in {Num(7), Str(<<"x">>)}}

\* one-record tables whose field holds an Object or an Array of two members
NestedArrays ==
  {<<Obj(<<<<<<"a">>, Obj(<<<<<<"x">>, Num(1)>>, <<<<"y">>, Num(2)>>>>)>>>>)>>,
   <<Obj(<<<<<<"a">>, Arr(<<Num(1), Num(2)>>)>>>>)>>}

\* the values of a field whose natural type changes from record to record
MixedScalars == {Num(7), Float(<<"1", ".", "5">>), Bool(TRUE), Str(<<"x">>)}

\* two records {a: v}, {a: w}
MixedArrays ==
  {<<Obj(<<<<<<"a">>, v>>>>), Obj(<<<<<<"a">>, w>>>>)>> : v, w \in MixedScalars}

Trees ==
  Scalars \cup FlatObjects \cup NestedObjects \cup UnsupportedTrees
  \cup {Obj(<<<<<<"u">>, Arr(r)>>>>) : r \in MixedArrays}
  \cup SampleObjects
  \cup {Obj(<<<<<<"u">>, Arr(r)>>>>) : r \in NestedArrays}
  \cup {Obj(<<<<<<"u">>, Arr(r)>>>>) : r \in TypedArrays}
  \cup {Arr(a) : a \in ScalarArrays}
  \cup {Obj(<<<<<<"t">>, Arr(a)>>>>) : a \in ScalarArrays}
  \cup {Obj(<<<<<<"u">>, Arr(r)>>>>) : r \in RecordArrays \cup LongArrays}

TokenChars == {"-", "T", "F", "7", "x", DQ, SP}
\* the token "-" between double quotes
QuotedDash == <<DQ, "-", DQ>>
Tokens == UNION {[1..n -> TokenChars] : n \in 0..MaxTokenLen} \cup {QuotedDash}

\* the unquoted tokens that are - once trimmed
DashTokens == {tok \in Tokens : trim(tok) = <<"-">>}

\* the type markers, and one that is none of them
Tags == {TypeMarkers[m] : m \in DOMAIN TypeMarkers} \cup {<<"@", "x">>}

KvText(tok) == <<"k", ":", SP>> \o tok
ListText(tok) == <<"-", SP>> \o tok
InlineText(tok) == <<"t", "[", "2", "]", ":", SP>> \o tok \o <<",", "x">>
TableText(tag, tok) ==
  <<"@", "u", "[", "1", "]", ":", NL, SP, SP, "f", NL, SP, SP>> \o tag
  \o <<NL, SP, SP>> \o tok
UntypedTableText(tok) ==
  <<"@", "u", "[", "1", "]", ":", NL, SP, SP, "f", NL, SP, SP>> \o tok

\* the lines of body, each with two more blanks, under the key o
Under(body) ==
  <<"o", ":", NL>>
  \o join([i \in 1..Len(split(body, NL)) |-> <<SP, SP>> \o split(body, NL)[i]], <<NL>>)

\* a table under the header @u[count]mods: with the field line and the rows
TableBlock(count, mods, fieldLine, rows) ==
  <<"@", "u", "[">> \o NumberToString(count) \o <<"]">> \o mods \o <<":", NL, SP, SP>>
  \o fieldLine \o flatten([i \in 1..Len(rows) |-> <<NL, SP, SP>> \o rows[i]])

\* what follows a table: nothing, a line break, or a line at the indentation
\* of the header
Endings == {<<>>, <<NL>>, <<NL, "k", ":", SP, "y">>}

\* the rows of a table that declares 2 rows and holds fewer
ShortRows == {<<>>, <<<<"x">>>>}

\* a table that declares 2 rows, at the root or under the key o
ShortTable(rows, ending, nested) ==
  IF nested THEN Under(TableBlock(2, <<>>, <<"f">>, rows) \o ending)
  ELSE TableBlock(2, <<>>, <<"f">>, rows) \o ending

ShortTableTexts ==
  {ShortTable(rows, ending, nested) :
     rows \in ShortRows, ending \in Endings, nested \in BOOLEAN}

FieldLines == {<<"f">>, <<"f", SP, "g">>}
TypeLines == {<<>>, <<"@", "s", SP, "@", "s">>}
Rows == {<<"x">>, <<"x", ",", "y">>, <<"x", ",", "y", ",", "z">>}
Modifiers == {<<>>, <<"?">>}

\* the rows before the last one of a table: none, or one with as many values
\* as the field line has fields
GoodRows(fieldLine) ==
  {<<>>, <<join([i \in 1..Len(splitWs(fieldLine)) |-> <<"x">>], <<",">>)>>}

\* a table whose last row is the last line of the text, after the rows good
RowTable(mods, fieldLine, typeLine, good, row) ==
  TableBlock(Len(good) + 1, mods, fieldLine,
             (IF typeLine = <<>> THEN <<>> ELSE <<typeLine>>) \o good \o <<row>>)

RowTableTexts ==
  UNION {{RowTable(mods, fieldLine, typeLine, good, row) :
            good \in GoodRows(fieldLine)} :
           mods \in Modifiers, fieldLine \in FieldLines, typeLine \in TypeLines,
           row \in Rows}

\* a line that matches no pattern, alone and after a key-value line
MalformedTexts ==
  {<<"x">>, <<"x", SP, "y">>, <<"@", "u", "[", "1", "]">>,
   <<"k", ":", SP, "y", NL, "x">>}

\* the lines a table block may hold before its rows: none, the field line,
\* the type line, a statistics line
BlockLeads ==
  {<<>>, <<NL, SP, SP, "a">>, <<NL, SP, SP, "a", NL, SP, SP, "@", "s">>,
   <<NL, SP, SP, "a", NL, SP, SP, "@", "s", NL, SP, SP, "s", "u", "m", ":", ",", "1">>}

\* a table header of the root for count rows, the lines lead, and then the
\* key-value line `k: y` of the root in place of the rest of the block
BlockEnd(count, lead) ==
  <<"@", "u", "[">> \o NumberToString(count) \o <<"]", ":">> \o lead
  \o <<NL, "k", ":", SP, "y">>

BlockEndTexts == {BlockEnd(count, lead) : count \in {0, 1}, lead \in BlockLeads}

\* the list item `- a: x` followed, at the indentation of the item, by the
\* sibling key `b: y`: alone or after the header t[1]:, at the root or under
\* the key o
ItemThenKey == <<"-", SP, "a", ":", SP, "x", NL, "b", ":", SP, "y">>

ListBlockTexts ==
  {ItemThenKey, <<"t", "[", "1", "]", ":", NL>> \o ItemThenKey,
   Under(ItemThenKey), Under(<<"t", "[", "1", "]", ":", NL>> \o ItemThenKey)}

\* the table of the test 'Decode columnar array', with shorter names
UsersText ==
  <<"@", "u", "[", "2", "]", ":", NL, SP, SP, "i", SP, "n", NL,
    SP, SP, "@", "i", SP, "@", "s", NL, SP, SP, "7", ",", "x", NL,
    SP, SP, "2", "5", ",", "y">>

NamedArrayTexts ==
  {InlineText(tok) : tok \in Tokens \ {<<>>}}
  \cup {TableText(tag, tok) : tag \in {TypeMarkers.STRING}, tok \in Tokens}
  \cup {UsersText, Under(UsersText), Under(InlineText(<<"x">>))}

Texts ==
  Tokens
  \cup {KvText(tok) : tok \in Tokens}
  \cup {ListText(tok) : tok \in Tokens}
  \cup {TableText(TypeMarkers.BOOLEAN, tok) : tok \in Tokens}
  \cup {TableText(tag, tok) : tag \in Tags, tok \in DashTokens \cup {QuotedDash}}
  \cup {UntypedTableText(tok) : tok \in Tokens}
  \cup {Under(KvText(tok)) : tok \in Tokens}
  \cup NamedArrayTexts
  \cup ShortTableTexts \cup RowTableTexts \cup MalformedTexts
  \cup BlockEndTexts \cup ListBlockTexts

QuoteChars == {BSL, DQ, NL, CR, TAB, "n", "r", "a"}
Strings == UNION {[1..n -> QuoteChars] : n \in 0..MaxLen}

\* records with the keys a, b, c, d: a holds v, the others x
Wide(v) ==
  Obj(<<<<<<"a">>, v>>, <<<<"b">>, Str(<<"x">>)>>, <<<<"c">>, Str(<<"x">>)>>,
        <<<<"d">>, Str(<<"x">>)>>>>)

\* the record {a: v, b: 7}
Pair(v) == Obj(<<<<<<"a">>, v>>, <<<<"b">>, Num(7)>>>>)

\* the Arrays of records encoded under every combination of the options
OptionArrays ==
  {LongArray(n, cycle, FALSE) :
     n \in {2, 5, 6, MaxRows - 1, MaxRows},
     cycle \in {<<Num(0)>>, <<Null, Num(1)>>, <<Null, Num(1), Num(2)>>}}
  \cup {<<Pair(Null), Pair(Str(<<"x">>))>>, <<Pair(Str(<<"x">>)), Pair(Null)>>,
        <<Pair(Str(<<"x">>)), Pair(Str(<<"x">>))>>,
        <<Wide(Null), Wide(Str(<<"x">>))>>, <<Wide(Str(<<"x">>)), Wide(Null)>>}

OptionTrees ==
  {Null, Obj(<<>>), Obj(<<<<<<"a">>, Bool(TRUE)>>>>),
   Obj(<<<<<<"t">>, Arr(<<Str(<<"x">>), Null>>)>>>>)}
  \cup {Obj(<<<<<<"u">>, Arr(r)>>>>) : r \in OptionArrays}

\* trees of nested Objects with plain string leaves
IndentTrees ==
  {Obj(<<<<<<"o">>, Obj(<<<<<<"a">>, Str(<<"x">>)>>>>)>>>>),
   Obj(<<<<<<"o">>, Obj(<<<<<<"a">>, Str(<<"x">>)>>>>)>>, <<<<"c">>, Str(<<"y">>)>>>>),
   Obj(<<<<<<"o">>, Obj(<<<<<<"p">>, Obj(<<<<<<"a">>, Str(<<"x">>)>>>>)>>>>)>>>>),
   Obj(<<<<<<"o">>, Obj(<<<<<<"p">>, Obj(<<<<<<"a">>, Str(<<"x">>)>>>>)>>,
                         <<<<"b">>, Str(<<"y">>)>>>>)>>,
         <<<<"c">>, Str(<<"z">>)>>>>)}

\* the default options with 1, 2 and 4 spaces per level
IndentOptionSets == {[DefaultEncodeOptions EXCEPT !.indent = n] : n \in {1, 2, 4}}

EncodeOptionSets ==
  [mode : {"auto", "columnar"}, indent : {2}, types : BOOLEAN, stats : BOOLEAN,
   compress : BOOLEAN, sparseThreshold : {30, 90}]

\* the calls that pass a value to encode and the text to decode
EncodeCalls == {"encode", "configure"}

Init ==
  /\ pc = "start"
  /\ result = NoResult
  /\ \/ /\ call = "encode"
        /\ value \in Trees
        /\ options = DefaultEncodeOptions
        /\ text = <<>>
        /\ decodeOptions = DefaultDecodeOptions
     \/ /\ call = "decode"
        /\ value = NoValue
        /\ options = DefaultEncodeOptions
        /\ text \in Texts
        /\ decodeOptions \in {[strict |-> b, decompress |-> TRUE] : b \in BOOLEAN}
     \/ /\ call = "configure"
        /\ \/ value \in OptionTrees /\ options \in EncodeOptionSets
           \/ value \in IndentTrees /\ options \in IndentOptionSets
        /\ text = <<>>
        /\ decodeOptions \in {[strict |-> TRUE, decompress |-> b] : b \in BOOLEAN}
     \/ /\ call = "quote"
        /\ value \in {Str(s) : s \in Strings}
        /\ options = DefaultEncodeOptions
        /\ text = <<>>
        /\ decodeOptions = DefaultDecodeOptions

\* text = encode(value, options)
Encode ==
  /\ call \in EncodeCalls /\ pc = "start"
  /\ text' = encode(value, options)
  /\ pc' = "encoded"
  /\ UNCHANGED <<call, value, options, decodeOptions, result>>

\* result = decode(text, decodeOptions), or the exception it threw
Decode ==
  /\ \/ call \in EncodeCalls /\ pc = "encoded"
     \/ call = "decode" /\ pc = "start"
  /\ result' = decode(text, decodeOptions)
  /\ pc' = "done"
  /\ UNCHANGED <<call, value, options, text, decodeOptions>>

\* text = '"' + escapeString(value) + '"'
Quote ==
  /\ call = "quote" /\ pc = "start"
  /\ text' = <<DQ>> \o escapeString(value.v) \o <<DQ>>
  /\ pc' = "quoted"
  /\ UNCHANGED <<call, value, options, decodeOptions, result>>

\* result = unquoteString(text)
Unquote ==
  /\ call = "quote" /\ pc = "quoted"
  /\ result' = Return(Str(unquoteString(text)), 0)
  /\ pc' = "done"
  /\ UNCHANGED <<call, value, options, text, decodeOptions>>

Next == Encode \/ Decode \/ Quote \/ Unquote

Spec == Init /\ [][Next]_vars

(***************************************************************************)
(* Properties                                                              *)
(***************************************************************************)
IsScalar(v) == v.kind \in {"null", "bool", "num", "str"}

\* an Array of Objects with identical key sets whose fields hold scalars of
\* one type each
UniformRecords(items) ==
  /\ items # <<>>
  /\ \A i \in 1..Len(items) :
       /\ items[i].kind = "obj"
       /\ sort(ObjectKeys(items[i])) = sort(ObjectKeys(items[1]))
       /\ \A j \in 1..Len(items[i].v) :
            /\ IsScalar(items[i].v[j][2])
            /\ inferType(items[i].v[j][2])
                 = inferType(Get(items[1], items[i].v[j][1]))

\* a tree of Objects (keys matching \w+), flat Arrays of scalars and uniform
\* Arrays of Objects
RECURSIVE Supported(_)
Supported(x) ==
  \/ IsScalar(x)
  \/ /\ x.kind = "arr"
     /\ (\A i \in 1..Len(x.v) : IsScalar(x.v[i])) \/ UniformRecords(x.v)
  \/ /\ x.kind = "obj"
     /\ \A i \in 1..Len(x.v) :
          /\ x.v[i][1] # <<>>
          /\ AllIn(x.v[i][1], Word)
          /\ Supported(x.v[i][2])

RoundTripped == call = "encode" /\ pc = "done"

\* C1: for every supported tree x (Objects, flat Arrays of scalars, uniform
\* Arrays of Objects), decode(encode(x)) with the default options returns x,
\* key order and scalar values preserved.
RoundTripSupported ==
  (RoundTripped /\ value.kind = "obj" /\ Supported(value)
     /\ options = DefaultEncodeOptions /\ decodeOptions = DefaultDecodeOptions)
  => (result.err = "none" /\ result.val = value)

\* the name in the header of the array block of a text, which is the first
\* line or, under the key o, the second
HeaderOf(t) ==
  LET ls == split(t, NL)
      nested == ls[1] = <<"o", ":">>
      h == trimStart(IF nested THEN ls[2] ELSE ls[1])
      b == IF At(h, 1) = "@" THEN Tail(h) ELSE h
  IN [nested |-> nested, name |-> SubSeq(b, 1, RunFrom(b, 1, Word))]

\* C2: decoding a table block `@name[count]:` or an inline line
\* `name[count]: v1,v2` maps the key name of the Object being built (the
\* root, or the enclosing nested Object) to the parsed Array, and creates no
\* other key.
NamedArrayBinding ==
  (call = "decode" /\ pc = "done" /\ text \in NamedArrayTexts)
  => LET h == HeaderOf(text)
         container == IF h.nested THEN Get(result.val, <<"o">>) ELSE result.val
     IN /\ result.err = "none"
        /\ container.kind = "obj"
        /\ ObjectKeys(container) = <<h.name>>
        /\ Get(container, h.name).kind = "arr"

\* the value the claim gives a token of a key-value line
ClaimedInference(t) ==
  IF t = <<"T">> THEN Bool(TRUE)
  ELSE IF t = <<"F">> THEN Bool(FALSE)
  ELSE IF t = <<"-">> THEN Null
  ELSE IF IsDigits(IF At(t, 1) = "-" THEN Tail(t) ELSE t) THEN parseInt(t).val
  ELSE IF IsDecimal(t) THEN parseFloat(t).val
  ELSE Str(unquoteString(t))

\* C3: decoding a line `key: value` with a non-empty value infers the type
\* of the value: T and F give booleans, an integer token an integer, a
\* decimal token a float, - null, anything else the unquoted string.
KeyValueInference ==
  \A tok \in Tokens :
    (call = "decode" /\ pc = "done" /\ text = KvText(tok) /\ trim(tok) # <<>>)
    => (result.err = "none"
        /\ result.val = Obj(<<<<<<"k">>, ClaimedInference(trim(tok))>>>>))

\* C4: an Object field holding a non-empty Array of scalars is encoded as
\* the single line `name[count]: v1,v2,...`.
InlineScalarArray ==
  (call = "encode" /\ pc # "start" /\ value.kind = "obj" /\ Len(value.v) = 1
     /\ value.v[1][2].kind = "arr" /\ value.v[1][2].v # <<>>
     /\ \A i \in 1..Len(value.v[1][2].v) : IsScalar(value.v[1][2].v[i]))
  => LET name == value.v[1][1]
         items == value.v[1][2].v
     IN split(text, NL) =
          <<name \o <<"[">> \o NumberToString(Len(items)) \o <<"]", ":", SP>>
            \o join([i \in 1..Len(items) |-> formatValue(items[i], inferType(items[i]))],
                    <<",">>)>>

\* value is an Object whose only field holds a non-empty Array of Objects
HoldsRecords ==
  /\ value.kind = "obj" /\ Len(value.v) = 1
  /\ value.v[1][2].kind = "arr" /\ value.v[1][2].v # <<>>
  /\ \A i \in 1..Len(value.v[1][2].v) : value.v[1][2].v[i].kind = "obj"

KeySet(o) == {o.v[j][1] : j \in 1..Len(o.v)}

SameKeySets(items) == \A i \in 1..Len(items) : KeySet(items[i]) = KeySet(items[1])

\* the text of the Array starts with a table header
IsTable(t) == At(t, 1) = "@"

\* C5: a non-empty Array of Objects is encoded as a table (header starting
\* with @) iff every element's key set equals the first element's, for every
\* array length and every distribution of values.
TableShapeGate ==
  (call = "encode" /\ pc # "start" /\ HoldsRecords)
  => (IsTable(text) <=> SameKeySets(value.v[1][2].v))

\* the records decode built for the Array of the key name: the Array bound
\* to name or, when no such key exists, the values of the result's keys
DecodedRecords(name) ==
  IF Get(result.val, name).kind = "arr" THEN Get(result.val, name).v
  ELSE [i \in 1..Len(Entries(result.val)) |-> Entries(result.val)[i][2]]

\* C6: through a table round trip each decoded record lists its keys in the
\* insertion order of the original record, whatever that order is.
TableKeyOrder ==
  (RoundTripped /\ HoldsRecords /\ SameKeySets(value.v[1][2].v) /\ IsTable(text)
     /\ result.err = "none")
  => LET items == value.v[1][2].v
         recs == DecodedRecords(value.v[1][1])
     IN /\ Len(recs) = Len(items)
        /\ \A i \in 1..Len(items) : ObjectKeys(recs[i]) = ObjectKeys(items[i])

\* C7: for every string s, unquoteString('"' + escapeString(s) + '"') = s.
QuoteRoundTrip ==
  (call = "quote" /\ pc = "done") => result.val = value

\* the non-null values of every field are of one type, and some field is
\* null in some records and not in others
NullsAmongUniform(items) ==
  /\ SameKeySets(items)
  /\ \A i \in 1..Len(items) : \A j \in 1..Len(items[i].v) : \A k \in 1..Len(items) :
       LET a == items[i].v[j][2]
           b == Get(items[k], items[i].v[j][1])
       IN /\ IsScalar(a)
          /\ (~IsNullish(a) /\ ~IsNullish(b)) => inferType(a) = inferType(b)
  /\ \E j \in 1..Len(items[1].v) : \E i, k \in 1..Len(items) :
       /\ IsNullish(Get(items[i], items[1].v[j][1]))
       /\ ~IsNullish(Get(items[k], items[1].v[j][1]))

\* C10: for uniform-key records in which a field is null in some records
\* (the first included) and non-null in others, decode(encode(x)) recovers
\* the non-null values of that field.
NullFieldRoundTrip ==
  (RoundTripped /\ HoldsRecords /\ NullsAmongUniform(value.v[1][2].v))
  => LET items == value.v[1][2].v
         recs == DecodedRecords(value.v[1][1])
     IN /\ result.err = "none"
        /\ Len(recs) = Len(items)
        /\ \A i \in 1..Len(items) : \A j \in 1..Len(items[i].v) :
             ~IsNullish(items[i].v[j][2])
             => Get(recs[i], items[i].v[j][1]) = items[i].v[j][2]

\* the lines of the text
TextLines == split(text, NL)

\* the cells of the data row of record i of a table encoded with type tags
RowCells(i) == split(DropFrom(TextLines[3 + i], 3), ",")

\* the first value decode put into its result
FirstValue == Entries(result.val)[1][2]

Decoded(t) == call = "decode" /\ pc = "done" /\ text = t

\* encode renders null and undefined as - as the root value, as a key-value
\* value, as a list item and as a table cell under any field tag
EncodesNullAsDash ==
  (call = "encode" /\ pc # "start")
  => /\ IsNullish(value) => text = <<"-">>
     /\ value.kind = "obj"
        => \A j \in 1..Len(value.v) :
             IsNullish(value.v[j][2])
             => TextLines[j] = value.v[j][1] \o <<":", SP, "-">>
     /\ value.kind = "arr"
        => \A i \in 1..Len(value.v) :
             IsNullish(value.v[i]) => TextLines[1 + i] = <<"-", SP, "-">>
     /\ (HoldsRecords /\ IsTable(text))
        => LET items == value.v[1][2].v
               fields == analyzeArray(items).fields
           IN \A i \in 1..Len(items) : \A j \in 1..Len(fields) :
                IsNullish(Get(items[i], fields[j])) => RowCells(i)[j] = <<"-">>

\* decode gives null for an unquoted - as a key-value value, a list item, an
\* inline element and a table cell under every tag
DecodesDashAsNull ==
  \A tok \in DashTokens :
    /\ Decoded(KvText(tok))
       => (result.err = "none" /\ result.val = Obj(<<<<<<"k">>, Null>>>>))
    /\ Decoded(Under(KvText(tok)))
       => (result.err = "none"
           /\ result.val = Obj(<<<<<<"o">>, Obj(<<<<<<"k">>, Null>>>>)>>>>))
    /\ Decoded(ListText(tok)) => (result.err = "none" /\ FirstValue = Null)
    /\ Decoded(InlineText(tok)) => (result.err = "none" /\ FirstValue = Null)
    /\ Decoded(UntypedTableText(tok))
       => (result.err = "none" /\ FirstValue = Obj(<<<<<<"f">>, Null>>>>))
    /\ \A tag \in Tags :
         Decoded(TableText(tag, tok))
         => (result.err = "none" /\ FirstValue = Obj(<<<<<<"f">>, Null>>>>))

\* decode gives the string - for the quoted token wherever the token is
\* parsed as a string
DecodesQuotedDash ==
  /\ Decoded(KvText(QuotedDash))
     => (result.err = "none" /\ result.val = Obj(<<<<<<"k">>, Str(<<"-">>)>>>>))
  /\ Decoded(ListText(QuotedDash))
     => (result.err = "none" /\ FirstValue = Str(<<"-">>))
  /\ Decoded(InlineText(QuotedDash))
     => (result.err = "none" /\ FirstValue = Str(<<"-">>))
  /\ Decoded(UntypedTableText(QuotedDash))
     => (result.err = "none" /\ FirstValue = Obj(<<<<<<"f">>, Str(<<"-">>)>>>>))
  /\ \A tag \in StringFamily :
       Decoded(TableText(tag, QuotedDash))
       => (result.err = "none" /\ FirstValue = Obj(<<<<<<"f">>, Str(<<"-">>)>>>>))

BoolToken(v) == IF v.v THEN <<"T">> ELSE <<"F">>

\* encode renders a boolean as T or F as the root value, as a key-value
\* value, as a list item and as a cell of a column with the Boolean tag
EncodesBoolean ==
  (call = "encode" /\ pc # "start")
  => /\ value.kind = "bool" => text = BoolToken(value)
     /\ value.kind = "obj"
        => \A j \in 1..Len(value.v) :
             value.v[j][2].kind = "bool"
             => TextLines[j] = value.v[j][1] \o <<":", SP>> \o BoolToken(value.v[j][2])
     /\ value.kind = "arr"
        => \A i \in 1..Len(value.v) :
             value.v[i].kind = "bool"
             => TextLines[1 + i] = <<"-", SP>> \o BoolToken(value.v[i])
     /\ (HoldsRecords /\ IsTable(text))
        => LET items == value.v[1][2].v
               analysis == analyzeArray(items)
           IN \A i \in 1..Len(items) : \A j \in 1..Len(analysis.fields) :
                (analysis.types[j] = TypeMarkers.BOOLEAN
                   /\ Get(items[i], analysis.fields[j]).kind = "bool")
                => RowCells(i)[j] = BoolToken(Get(items[i], analysis.fields[j]))

\* decode of a table cell under the Boolean tag gives true for T, false for
\* F, and fails for every other token that is neither - nor empty
DecodesBoolean ==
  \A tok \in Tokens :
    Decoded(TableText(TypeMarkers.BOOLEAN, tok))
    => /\ trim(tok) = <<"T">>
          => (result.err = "none" /\ FirstValue = Obj(<<<<<<"f">>, Bool(TRUE)>>>>))
       /\ trim(tok) = <<"F">>
          => (result.err = "none" /\ FirstValue = Obj(<<<<<<"f">>, Bool(FALSE)>>>>))
       /\ trim(tok) \notin {<<"T">>, <<"F">>, <<"-">>, <<>>} => result.err # "none"

RECURSIVE IndexValues(_)
IndexValues(pairs) ==
  IF pairs = <<>> THEN <<>>
  ELSE IF IsArrayIndex(pairs[1][1]) THEN <<pairs[1][2]>> \o IndexValues(Tail(pairs))
  ELSE IndexValues(Tail(pairs))

RowsIn(container) ==
  IF Get(container, <<"u">>).kind = "arr" THEN Get(container, <<"u">>).v
  ELSE IndexValues(Entries(container))

\* C11: when a table header declares count rows and fewer rows are available
\* before the table ends (the input ends, or a line with indentation <= the
\* header's follows), decode with strict=true fails, and with strict=false
\* it returns the rows it found without failing.
ShortTableStrict ==
  \A rows \in ShortRows : \A ending \in Endings : \A nested \in BOOLEAN :
    Decoded(ShortTable(rows, ending, nested))
    => IF decodeOptions.strict
       THEN result.err = "FluxDecodeError"
       ELSE /\ result.err = "none"
            /\ RowsIn(IF nested THEN Get(result.val, <<"o">>) ELSE result.val)
                 = [i \in 1..Len(rows) |-> Obj(<<<<<<"f">>, Str(rows[i])>>>>)]

\* C12: when a data row splits into a number of values different from the
\* number of header fields, decode with strict=true fails with a decode
\* error, unless the table header carries the ? modifier, in which case no
\* field-count error is raised.
FieldCountStrict ==
  \A mods \in Modifiers : \A fieldLine \in FieldLines : \A typeLine \in TypeLines :
    \A row \in Rows : \A good \in GoodRows(fieldLine) :
      (Decoded(RowTable(mods, fieldLine, typeLine, good, row))
         /\ decodeOptions.strict
         /\ Len(splitCsvLine(row)) # Len(splitWs(fieldLine)))
      => IF mods = <<>> THEN result.err = "FluxDecodeError"
         ELSE result.err # "FluxDecodeError"

\* strict decode failed on the row x of a table with the fields f and g
FieldCountStrictWitness ==
  /\ Decoded(RowTable(<<>>, <<"f", SP, "g">>, <<>>, <<>>, <<"x">>))
  /\ decodeOptions.strict
  /\ result.err = "FluxDecodeError"

\* the record the claim allows for a row under the fields: every field that
\* has a value holds it, a field without one is null or left out, and there
\* is no other key
BestEffortRecord(rec, fields, values) ==
  /\ rec.kind = "obj"
  /\ \A j \in 1..Len(rec.v) : \E i \in 1..Len(fields) : rec.v[j][1] = fields[i]
  /\ \A i \in 1..Len(fields) :
       IF i <= Len(values) THEN Get(rec, fields[i]) = Str(values[i])
       ELSE IsNullish(Get(rec, fields[i]))

\* C13: with strict=false, or with a ? header modifier, decode never fails
\* because a data row has fewer or more values than the header has fields:
\* it returns a tree in which missing values are null or omitted and extra
\* values are ignored.
MismatchTolerated ==
  \A mods \in Modifiers : \A fieldLine \in FieldLines : \A typeLine \in TypeLines :
    \A row \in Rows : \A good \in GoodRows(fieldLine) :
      (Decoded(RowTable(mods, fieldLine, typeLine, good, row))
         /\ (~decodeOptions.strict \/ mods = <<"?">>))
      => /\ result.err = "none"
         /\ Len(RowsIn(result.val)) = Len(good) + 1
         /\ BestEffortRecord(RowsIn(result.val)[Len(good) + 1],
                             splitWs(fieldLine), splitCsvLine(row))

\* a line that is not blank, is no comment and matches none of the patterns
\* of the grammar: table header, inline array, key-value, list item
Malformed(line) ==
  /\ trim(line) # <<>>
  /\ ~startsWith(trim(line), <<"#">>)
  /\ ~arrayMatch(line).ok
  /\ ~simpleArrayMatch(line).ok
  /\ ~kvMatch(line).ok
  /\ ~isListItem(line)

\* C14: with strict=true, a non-blank, non-comment line that matches none of
\* the grammar patterns makes decode fail at that line; it is never skipped.
MalformedLineStrict ==
  (call = "decode" /\ pc = "done" /\ decodeOptions.strict
     /\ text \in MalformedTexts \cup Tokens
     /\ \E i \in 1..Len(TextLines) : Malformed(TextLines[i]))
  => result.err # "none"

\* C15: every decode failure raised for a row-count or field-count mismatch
\* in strict mode carries the 1-based line number, within the text passed to
\* decode, of the line at which the violation was detected: the mismatched
\* row, which is the last line of the text, or the end of the text.
ErrorLineNumbers ==
  (call = "decode" /\ pc = "done" /\ result.err = "FluxDecodeError")
  => /\ text \in RowTableTexts => result.line = Len(TextLines)
     /\ text \in ShortTableTexts => result.line \in {Len(TextLines), Len(TextLines) + 1}

\* the tree holds, anywhere, a value with no defined type tag
RECURSIVE HasUnsupported(_)
HasUnsupported(x) ==
  \/ x.kind \in {"function", "symbol"}
  \/ /\ x.kind = "arr"
     /\ \E i \in 1..Len(x.v) : HasUnsupported(x.v[i])
  \/ /\ x.kind = "obj"
     /\ \E i \in 1..Len(x.v) : HasUnsupported(x.v[i][2])

\* C16: if the value tree contains, anywhere, a function or a symbol, encode
\* fails and returns no text.
UnsupportedAborts ==
  (call \in EncodeCalls /\ HasUnsupported(value)) => pc = "start"

\* the options with compress switched off
Unmarked(opts) == [opts EXCEPT !.compress = FALSE]

NullsOf(items, key) ==
  Cardinality({i \in 1..Len(items) : IsNullish(Get(items[i], key))})

DistinctOf(items, key) ==
  Cardinality({Get(items[i], key) : i \in 1..Len(items)} \ {Null, Undefined})

SparseKeys(items) ==
  {key \in KeySet(items[1]) : NullsOf(items, key) * 100 > 30 * Len(items)}

CandidateKeys(items) ==
  {key \in KeySet(items[1]) :
     /\ NullsOf(items, key) < Len(items)
     /\ 10 * DistinctOf(items, key) < 3 * (Len(items) - NullsOf(items, key))
     /\ DistinctOf(items, key) < 50}

ClaimedLayout(items) ==
  IF 10 * Cardinality(SparseKeys(items)) > 3 * Cardinality(KeySet(items[1]))
  THEN "sparse"
  ELSE IF CandidateKeys(items) # {} /\ Len(items) > 10 THEN "dictionary"
  ELSE "columnar"

\* the first line of the text after the compression marker
HeaderLine == IF options.compress THEN TextLines[2] ELSE TextLines[1]

LayoutDecision ==
  (call \in EncodeCalls /\ pc # "start" /\ HoldsRecords
     /\ SameKeySets(value.v[1][2].v))
  => LET items == value.v[1][2].v
     IN /\ analyzeArray(items).mode = ClaimedLayout(items)
        /\ endsWith(HeaderLine, <<"?", ":">>) <=> ClaimedLayout(items) = "sparse"
        /\ HeaderLine = <<"@", "u", "[">> \o NumberToString(Len(items)) \o <<"]", ":">>
           <=> ClaimedLayout(items) = "columnar"

\* an Array of more than 10 records whose field is sparse and a dictionary
\* candidate at once was encoded
LayoutDecisionWitness ==
  /\ call \in EncodeCalls /\ pc = "encoded" /\ HoldsRecords
  /\ SameKeySets(value.v[1][2].v)
  /\ Len(value.v[1][2].v) > 10
  /\ SparseKeys(value.v[1][2].v) # {}
  /\ CandidateKeys(value.v[1][2].v) # {}
  /\ endsWith(HeaderLine, <<"?", ":">>)

\* the lines of the block of the Array, after the compression marker
BlockLines == IF options.compress THEN Tail(TextLines) ELSE TextLines

\* the lines of the Columnar rendering of the Array items of the key u
ColumnarLines(items) ==
  split(join(encodeAnalyzed(items, <<"u">>, options, <<>>,
                            [analyzeArray(items) EXCEPT !.mode = "columnar"]),
             <<NL>>),
        NL)

\* the Columnar rendering with the markers of the Sparse layout: ?: at the
\* end of the header and ? after every sparse field of the field-name line
MarkedColumnarLines(items) ==
  LET fields == analyzeArray(items).fields
  IN << <<"@", "u", "[">> \o NumberToString(Len(items)) \o <<"]", "?", ":">>,
        <<SP, SP>>
        \o join([i \in 1..Len(fields) |->
                   IF fields[i] \in SparseKeys(items) THEN fields[i] \o <<"?">>
                   ELSE fields[i]],
                IF options.types THEN <<SP>> ELSE <<",">>) >>
     \o DropFrom(ColumnarLines(items), 3)

\* C20: for an Array selected as Sparse, under every combination of the
\* types and stats options, the emitted block is line for line the Columnar
\* rendering of the same Array, except that the header ends in ?: and the
\* sparse fields carry a ? suffix in the field-name line.
SparseEqualsColumnar ==
  (call \in EncodeCalls /\ pc # "start" /\ HoldsRecords
     /\ SameKeySets(value.v[1][2].v)
     /\ analyzeArray(value.v[1][2].v).mode = "sparse")
  => BlockLines = MarkedColumnarLines(value.v[1][2].v)

\* the type line of a table: the tags of the values of the first record, in
\* the order of the sorted field names
FirstRecordTags(items) ==
  <<SP, SP>>
  \o join([i \in 1..Len(sort(ObjectKeys(items[1]))) |->
             inferType(Get(items[1], sort(ObjectKeys(items[1]))[i]))],
          <<SP>>)

\* C21: in a table every record's value for a field is formatted and parsed
\* under the tag inferred from the first record's value for that field, and
\* for every such array encode succeeds and decode of the result succeeds
\* rather than failing, also when a later value has another natural type.
FixedTagNeverFails ==
  (RoundTripped /\ HoldsRecords /\ SameKeySets(value.v[1][2].v) /\ IsTable(text))
  => /\ TextLines[3] = FirstRecordTags(value.v[1][2].v)
     /\ result.err = "none"

\* a line that opens with the given word
Opens(line, word) == startsWith(trim(line), word)

SumLine(line) == Opens(line, <<"s", "u", "m", ":">>)

AvgLine(line) == Opens(line, <<"a", "v", "g", ":">>)

\* the number of lines of a table block before its statistics or data rows:
\* the header, the field line and, when types are written, the type line
LeadLines == IF options.types THEN 3 ELSE 2

NoStats(opts) == [opts EXCEPT !.stats = FALSE]

Sample == value.v[1][2].v

ListedTag(v) == (CHOOSE s \in TypeSamples : s[1] = v)[2]

\* C24: inferType returns the tag of the first matching rule in the order
\* Null, Boolean, Integer / Float, Date object, Email, Url, Uuid, Hash,
\* timestamp-prefixed string, other string, other object or array; equal
\* values get equal tags; and the type line of a table lists, per field, the
\* tag inferred from the first record.
InferenceOrder ==
  (call = "encode" /\ pc # "start" /\ HoldsRecords /\ value.v[1][2].v \in TypedArrays)
  => /\ inferType(value.v[1][2].v[1].v[1][2]) = ListedTag(value.v[1][2].v[1].v[1][2])
     /\ TextLines[3] = <<SP, SP>> \o ListedTag(value.v[1][2].v[1].v[1][2])
     /\ \A s \in TypeSamples : inferType(s[1]) = s[2]

\* a table whose first record holds a Date, before a record that holds a
\* string: the type line is @t and the first row is the ISO text of the Date
InferenceOrderWitness ==
  /\ call = "encode" /\ pc = "done" /\ HoldsRecords /\ value.v[1][2].v \in TypedArrays
  /\ Len(value.v[1][2].v) = 2
  /\ value.v[1][2].v[1].v[1][2].kind = "date"
  /\ value.v[1][2].v[2].v[1][2] = Str(<<"x">>)
  /\ TextLines[3] = <<SP, SP, "@", "t">>
  /\ TextLines[4] = <<SP, SP>> \o value.v[1][2].v[1].v[1][2].v
  /\ result.err = "none"

\* C25: every scalar contributes text without a raw line break, so that each
\* key-value pair occupies exactly one line of the output; a string with a
\* newline or carriage return anywhere, also in its interior, is quoted and
\* escaped.
OneLinePerScalar ==
  (call = "encode" /\ pc # "start" /\ value.kind = "obj" /\ value.v # <<>>
     /\ \A i \in 1..Len(value.v) : IsScalar(value.v[i][2]))
  => /\ Len(TextLines) = Len(value.v)
     /\ \A i \in 1..Len(text) : text[i] # CR

\* every record holds Objects and Arrays only
HoldsNested(items) ==
  \A i \in 1..Len(items) : \A j \in 1..Len(items[i].v) :
    items[i].v[j][2].kind \in {"arr", "obj"}

\* C26: when a field of a uniform-key Object array holds a nested Object or
\* Array, each data row still splits, under the decoder's quote-aware comma
\* split, into as many values as the header has fields, and the cell decodes
\* back to the same nested value.
NestedCells ==
  (RoundTripped /\ HoldsRecords /\ SameKeySets(value.v[1][2].v)
     /\ HoldsNested(value.v[1][2].v))
  => /\ \A i \in 1..Len(value.v[1][2].v) :
          Len(splitCsvLine(trim(TextLines[3 + i]))) = Len(value.v[1][2].v[1].v)
     /\ result.err = "none"
     /\ RowsIn(result.val) = value.v[1][2].v

\* C27: after a table header at indentation h, table parsing consumes only
\* lines indented deeper than h; the first line with indentation <= h stays
\* unconsumed and is dispatched as its own line, also when the header
\* declares count 0 or the block has no field-name line.  Here the line
\* `k: y` follows the block at the indentation of the header.
TableBlockOnly ==
  (call = "decode" /\ pc = "done" /\ text \in BlockEndTexts
     /\ (~decodeOptions.strict \/ text[4] = "0"))
  => /\ result.err = "none"
     /\ Get(result.val, <<"k">>) = Str(<<"y">>)

\* the Object that encloses the list-item block of the text
Enclosing == IF text[1] = "o" THEN Get(result.val, <<"o">>) ELSE result.val

\* C28: a `key: value` line is absorbed into the current list-item record
\* only if it is indented deeper than the items; a `key: value` line at the
\* indentation of the items that follows the block ends the block and
\* becomes a key of the enclosing Object, at every nesting depth.
ListItemBlock ==
  (call = "decode" /\ pc = "done" /\ text \in ListBlockTexts)
  => /\ result.err = "none"
     /\ Get(Enclosing, <<"b">>) = Str(<<"y">>)

\* C29: nesting is independent of the encoder's indent width: for every
\* indent option n >= 1 and every tree of nested Objects with plain string
\* leaves, decoding the text encoded with indent n gives what decoding the
\* text encoded with the default indent gives.
IndentIndependent ==
  (call = "configure" /\ pc = "done" /\ value \in IndentTrees)
  => /\ result.val = decode(encode(value, DefaultEncodeOptions), decodeOptions).val
     /\ result.err = decode(encode(value, DefaultEncodeOptions), decodeOptions).err

\* the lines decode splits the text into
InputLines ==
  split(IF startsWith(text, COMPRESSED) /\ decodeOptions.decompress
        THEN DropFrom(text, indexOf(text, <<NL>>) + 1)
        ELSE text,
        NL)

\* decode is about to be called on the text
DecodePending ==
  \/ call \in EncodeCalls /\ pc = "encoded"
  \/ call = "decode" /\ pc = "start"

\* parseLine, called with the cursor on any line of the input, leaves it at
\* least one line further and at most at the number of lines
LineProgress(lines, strict) ==
  \A c \in 0..(Len(lines) - 1) :
    parseLine(lines, strict, c).cur \in (c + 1)..Len(lines)

\* parseObject and parseArray, called with the cursor anywhere, never move it
\* back nor beyond the number of lines
BlockProgress(lines, strict) ==
  \A c \in 0..Len(lines) :
    /\ \A indent \in {0, 2} :
         parseObject(lines, strict, indent, c, <<>>).cur \in c..Len(lines)
    /\ \A count \in {0, Len(lines)} :
         parseArray(lines, strict, count, <<>>, 0, c).cur \in c..Len(lines)

\* C30: decode terminates on every input: the line cursor never decreases,
\* every call of parseLine made while the cursor is inside the input advances
\* it by at least one line, the loops of parseObject and parseArray advance
\* the cursor or exit, and decode returns or raises with the cursor at most
\* at the number of lines (at the number of lines when it returns).
DecodeProgress ==
  /\ DecodePending
     => /\ LineProgress(InputLines, decodeOptions.strict)
        /\ BlockProgress(InputLines, decodeOptions.strict)
  /\ (call \in EncodeCalls \cup {"decode"} /\ pc = "done")
     => /\ result.cur \in 0..Len(InputLines)
        /\ result.err = "none" => result.cur = Len(InputLines)

\* decode has returned from a text with a line that matches no line shape
DecodeProgressWitness ==
  /\ call = "decode" /\ pc = "done"
  /\ text = <<"k", ":", SP, "y", NL, "x">>
  /\ result.err = "none" /\ result.cur = 2
  /\ Get(result.val, <<"k">>) = Str(<<"y">>)
====
